---------------------------- MODULE Spec2Model ----------------------------
(***************************************************************************)
(* A model of the KDT_WEB test-execution engine (core/runner.py,           *)
(* core/keyword_engine.py, core/playwright_manager.py) and of the agent    *)
(* coordination protocol (agent/manager.py, agent/router.py,               *)
(* agent/client.py), with the test cases the routes of                     *)
(* app/routers/testcase_router.py store through app/crud.py.               *)
(*                                                                         *)
(* The specifications share the module's variables:                        *)
(*   SpecRun      - one call of run_test_case, from entry to persistence;  *)
(*   SpecDispatch - the AgentManager with concurrent send_command calls;   *)
(*   SpecRouter   - the agent routes and one caller of send_command;       *)
(*   FairRouter   - SpecRouter with agents that keep polling;              *)
(*   SpecSweep    - the registry with a clock and the maintenance sweep;   *)
(*   SpecClient   - one ClientAgent and the coordinator it talks to;       *)
(*   FairClient   - SpecClient with the client's coroutines kept running;  *)
(*   FairShutdown - SpecClient with a start() that is not left hanging;    *)
(*   SpecHeartbeat - the client next to the clock and the sweep;           *)
(*   SpecEngine   - execute_step on its own, given any step;               *)
(*   SpecSave     - two processes inside save_run_results at once;         *)
(*   SpecArtifacts - two processes inside run_test_case at once;           *)
(*   SpecIsolation - the routes and a dispatch, for several agents;        *)
(*   SpecPipeline - the client's poll loop and its execution loop;         *)
(*   SpecStatus   - update_agent_status and the poll route with a clock;   *)
(*   SpecListing  - the GET routes of the agents through the route table;  *)
(*   SpecCases    - test cases created, updated and read (app/crud.py);    *)
(*   SpecRunCase  - the client's handler of a run-case command;            *)
(*   SpecPings    - the heartbeats as commands in the client's backlog;    *)
(*   SpecRemoval  - agents removed while a dispatch waits for them.        *)
(* The browser driver, the record store and the callers of the routes are  *)
(* the environment: each of their calls ends "ok" or "raise", or is made   *)
(* with any of the inputs, chosen with \E.                                 *)
(***************************************************************************)
EXTENDS Integers, Sequences, FiniteSets, TLC

(***************************************************************************)
(* Bounds of the model.                                                    *)
(***************************************************************************)
\* longest step list a case is given
MaxSteps == 3
\* number of agents that are ever registered
MaxAgents == 2
\* number of commands that are ever dispatched
MaxCommands == 2
\* latest reading of the clock
MaxTime == 2
\* longest list of steps submitted for a case
MaxCaseSteps == 2
\* longest locator string a step is given
MaxLen == 2
\* most log entries a concurrent save is given
MaxLogs == 2

VARIABLES
    \* ---- run_test_case (core/runner.py) ----
    pc,                   \* position of the run inside run_test_case
    db_case,              \* what crud.get_test_case(case_id) finds
    db_project,           \* what crud.get_project(project_id) finds
    step_index,           \* the loop variable i of the step loop
    all_steps_succeeded,  \* runner.py:71
    run_log_entries,      \* runner.py:32
    test_status,          \* runner.py:33
    report_path,          \* runner.py:34
    session,              \* the browser: "none", "open", "lost", "closed"
    tracing,              \* the context's trace: "none", "started", "stopped"
    exc_pending,          \* an exception is unwinding out of the async with
    calls,                \* history: the calls the run has made, in order
    results,              \* history: one record per execute_step invocation
    saved_runs,           \* the test_runs / run_logs rows committed
    save_failures,        \* history: the persistence failures logged
    \* ---- KeywordEngine.execute_step on its own (core/keyword_engine.py) ----
    engine_step,          \* the step execute_step is given
    engine_calls,         \* history: the driver primitives invoked, in order
    engine_results,       \* history: one record per execute_step call
    \* ---- concurrent save_run_results calls and the record store ----
    test_runs,            \* the rows of table test_runs
    run_logs,             \* the rows of table run_logs
    next_run_id,          \* the AUTO_INCREMENT counter of test_runs
    saver,                \* per process: its position inside save_run_results
    \* ---- concurrent runs and the files they write ----
    procs,                \* per process: case_id, start_time, position
    files,                \* history: the paths written, each with its writer
    \* ---- AgentManager (agent/manager.py) ----
    agents,               \* self.agents: id -> [status, last_seen]
    command_queues,       \* self.command_queues: id -> queue of commands
    agent_connections,    \* self.agent_connections: id -> queue of responses
    detached,             \* response queues removed from agent_connections
                          \* that a suspended caller still waits on
    getters,              \* per response queue: the callers suspended in
                          \* its get(), longest-suspended first
    answered,             \* ids of the commands the agents have answered
    timed_out,            \* ids of the commands whose dispatch timed out
    next_agent,           \* number of ids handed out so far
    next_command,         \* number of commands dispatched so far
    now,                  \* datetime.now(), a logical clock (it advances
                          \* only under SpecSweep)
    dpc,                  \* per caller: position inside send_command
    dcmd,                 \* per caller: the command it dispatches
    dagent,               \* per caller: the agent id it dispatches to
    dresult,              \* per caller: what send_command returned
    dstatus,              \* per caller: the agent's status when it returned
    \* ---- the agent routes (agent/router.py) ----
    agent_commands,       \* router.py:20: id -> list of pending commands
    enqueued,             \* history: per registered id, the commands the
                          \* routes appended to its backlog
    polled,               \* history: per registered id, the commands its
                          \* polls returned
    route_result,         \* the latest route call and what it answered
    \* ---- ClientAgent (agent/client.py) ----
    client_id,            \* self.agent_id, 0 while it is None
    client_running,       \* self.running
    client_tasks,         \* the coroutines of the client that are scheduled
    client_buffer,        \* self.command_queue, the local holding buffer
    client_executed,      \* history: one record per execute_command call
    client_heartbeat,     \* history: when send_heartbeat last ran, -1 before
    client_executing,     \* the execute_command calls that have not returned
    \* the stored test cases, for the operations of crud.py
    test_steps,           \* table test_steps: the committed rows of each case
    case_returned         \* history: what the last operation on a case returned

coreVars == <<pc, db_case, db_project, step_index, all_steps_succeeded,
              run_log_entries, test_status, report_path, session, tracing,
              exc_pending, calls, results, saved_runs, save_failures>>

engineVars == <<engine_step, engine_calls, engine_results>>

saveVars == <<test_runs, run_logs, next_run_id, saver>>

artifactVars == <<procs, files>>

caseVars == <<test_steps, case_returned>>

runVars == <<coreVars, engineVars, saveVars, artifactVars, caseVars>>

agentVars == <<agents, command_queues, agent_connections, detached, getters,
               answered, timed_out,
               next_agent,
               next_command, now, dpc, dcmd, dagent, dresult, dstatus>>

routerVars == <<agent_commands, enqueued, polled, route_result>>

clientVars == <<client_id, client_running, client_tasks, client_buffer,
                client_executed, client_heartbeat, client_executing>>

vars == <<runVars, agentVars, routerVars, clientVars>>

-----------------------------------------------------------------------------
(***************************************************************************)
(* Values.  A Python Optional[str] is a record: None, or a string given as *)
(* the sequence of its characters.                                         *)
(***************************************************************************)
None == [isNone |-> TRUE, chars |-> <<>>]

Str(s) == [isNone |-> FALSE, chars |-> s]

\* Python truthiness of an Optional[str]: None and "" are falsy
Truthy(x) == ~x.isNone /\ x.chars # <<>>

\* step.get("keyword") of a step that has no keyword
NoKeyword == "<None>"

\* screenshot_path None
NoPath == <<>>

\* step_id None of the critical log entry
NoStepId == 0

(***************************************************************************)
(* core/keyword_engine.py                                                  *)
(***************************************************************************)
KEYWORDS ==
    {"goto", "click", "fill", "press", "select_option", "wait_for_selector",
     "wait_for_url", "expect_text", "expect_title", "screenshot"}

\* str.startswith for a one-character prefix
StartsWith(s, c) == Len(s) > 0 /\ s[1] = c

\* Mutant of _get_locator: only a leading "/" selects XPath resolution
_get_locator_SlashOnly(locator) ==
    IF StartsWith(locator, "/")
    THEN <<"x", "p", "a", "t", "h", "=">> \o locator
    ELSE locator

\* _get_locator, keyword_engine.py:64-67
_get_locator(locator) ==
    IF StartsWith(locator, "/") \/ StartsWith(locator, "(")
    THEN <<"x", "p", "a", "t", "h", "=">> \o locator
    ELSE locator

\* The check each keyword method makes on its arguments before it calls the
\* driver: TRUE when the method raises ValueError.
RaisesValueError(keyword, locator, value) ==
    CASE keyword = "goto"              -> ~Truthy(value)
      [] keyword = "click"             -> ~Truthy(locator)
      [] keyword = "fill"              -> ~Truthy(locator) \/ value.isNone
      [] keyword = "press"             -> ~Truthy(locator) \/ ~Truthy(value)
      [] keyword = "select_option"     -> ~Truthy(locator) \/ ~Truthy(value)
      [] keyword = "wait_for_selector" -> ~Truthy(locator)
      [] keyword = "wait_for_url"      -> ~Truthy(value)
      [] keyword = "expect_text"       -> ~Truthy(locator) \/ value.isNone
      [] keyword = "expect_title"      -> value.isNone
      [] keyword = "screenshot"        -> FALSE

\* A keyword method called with (locator, value) while the driver call it
\* makes ends driver ("ok" or "raise"): "ok" when the method returns,
\* "raise" when it raises.
KeywordMethod(keyword, locator, value, driver) ==
    IF RaisesValueError(keyword, locator, value) THEN "raise" ELSE driver

\* The path KeywordEngine.screenshot returns for a failure of step id
FailureScreenshot(id) == <<"screenshots", "step", id, "failure.png">>

\* execute_step's except branch: the failure screenshot is taken inside the
\* handler, so a page.screenshot that raises leaves execute_step.
StepFailure(id, handler, shot) ==
    IF shot = "ok"
    THEN [raised |-> FALSE, success |-> FALSE, message |-> "FAILURE",
          screenshot_path |-> FailureScreenshot(id), handler |-> handler]
    ELSE [raised |-> TRUE, success |-> FALSE, message |-> "FAILURE",
          screenshot_path |-> NoPath, handler |-> handler]

\* execute_step(step) with step['id'] = id, while the keyword's driver call
\* ends driver and the failure handler's page.screenshot ends shot.
\* handler is the keyword method that was called, or NoKeyword.
execute_step(step, id, driver, shot) ==
    IF step.keyword \notin KEYWORDS
    THEN StepFailure(id, NoKeyword, shot)
    ELSE IF KeywordMethod(step.keyword, step.locator, step.value, driver) = "ok"
         THEN [raised |-> FALSE, success |-> TRUE, message |-> "SUCCESS",
               screenshot_path |-> NoPath, handler |-> step.keyword]
         ELSE StepFailure(id, step.keyword, shot)

Outcomes == {"ok", "raise"}

\* str.startswith for a prefix of any length
HasPrefix(s, p) == Len(s) >= Len(p) /\ SubSeq(s, 1, Len(p)) = p

\* self.base_url and the prefix goto looks for, keyword_engine.py:26-28, 72
BaseUrl == <<"b", "a", "s", "e">>

Http == <<"h", "t", "t", "p">>

\* A driver primitive invoked on a target (a selector, a URL, a path)
Call(primitive, target) == [primitive |-> primitive, target |-> target]

\* KeywordEngine.screenshot, keyword_engine.py:118-124: the path of the file
ScreenshotPath(value) ==
    <<"screenshots">>
        \o (IF Truthy(value) THEN value.chars ELSE <<"screenshot_", "time">>)

\* keyword_engine.py:69-124: the driver primitives a keyword method invokes,
\* in order, once the check on its arguments has passed
KeywordCalls(keyword, locator, value) ==
    CASE keyword = "goto" ->
             <<Call("page.goto",
                    IF HasPrefix(value.chars, Http) THEN value.chars
                    ELSE BaseUrl \o value.chars),
               Call("locator.wait_for", <<"b", "o", "d", "y">>)>>
      [] keyword = "click" ->
             <<Call("locator.click", _get_locator(locator.chars))>>
      [] keyword = "fill" ->
             <<Call("locator.fill", _get_locator(locator.chars))>>
      [] keyword = "press" ->
             <<Call("locator.press", _get_locator(locator.chars))>>
      [] keyword = "select_option" ->
             <<Call("locator.select_option", _get_locator(locator.chars))>>
      [] keyword = "wait_for_selector" ->
             <<Call("page.wait_for_selector", _get_locator(locator.chars))>>
      [] keyword = "wait_for_url" ->
             <<Call("page.wait_for_url", value.chars)>>
      [] keyword = "expect_text" ->
             <<Call("expect.to_have_text", _get_locator(locator.chars))>>
      [] keyword = "expect_title" ->
             <<Call("expect.to_have_title", value.chars)>>
      [] keyword = "screenshot" ->
             <<Call("page.screenshot", ScreenshotPath(value))>>

\* The primitives execute_step reaches through the keyword method: none
\* when the keyword is rejected or the method's check raises
Invoked(step) ==
    IF step.keyword \notin KEYWORDS
          \/ RaisesValueError(step.keyword, step.locator, step.value)
    THEN <<>>
    ELSE KeywordCalls(step.keyword, step.locator, step.value)

\* How many of the primitives were invoked when the driver ended outcome:
\* all of them, or those up to the one that raised
Attempted(invoked, outcome) ==
    IF invoked = <<>> THEN {0}
    ELSE IF outcome = "ok" THEN {Len(invoked)} ELSE 1..Len(invoked)

\* step['id'] of the step execute_step is given on its own
EngineStepId == 1

\* The locators and values of a step: None, or a string
LocatorChars == {"/", "(", "#", "x"}

Locators ==
    {None} \cup {Str(s) : s \in UNION {[1..n -> LocatorChars] : n \in 0..MaxLen}}

Values == {None, Str(<<>>), Str(<<"v">>), Str(Http)}

EngineSteps ==
    {[keyword |-> k, locator |-> l, value |-> v] :
        k \in KEYWORDS \cup {"hover"}, l \in Locators, v \in Values}

\* No step has been given to the engine on its own
EngineIdle ==
    /\ engine_step = [keyword |-> NoKeyword, locator |-> None, value |-> None]
    /\ engine_calls = <<>>
    /\ engine_results = <<>>

EngineInit ==
    /\ engine_step \in EngineSteps
    /\ engine_calls = <<>>
    /\ engine_results = <<>>

\* execute_step(step), keyword_engine.py:33-62, with the primitives it
\* invokes: those of the keyword method, then the page.screenshot of the
\* failure handler
EngineExecuteStep ==
    /\ engine_results = <<>>
    /\ \E driver \in Outcomes, shot \in Outcomes :
          LET r == execute_step(engine_step, EngineStepId, driver, shot)
              invoked == Invoked(engine_step)
          IN  /\ engine_results' = <<r>>
              /\ \E n \in Attempted(invoked, driver) :
                    engine_calls' =
                        SubSeq(invoked, 1, n)
                            \o (IF r.success THEN <<>>
                                ELSE <<Call("page.screenshot",
                                            FailureScreenshot(EngineStepId))>>)
    /\ UNCHANGED <<coreVars, saveVars, artifactVars, caseVars, agentVars,
                   routerVars,
                   clientVars, engine_step>>

(***************************************************************************)
(* The steps a case is made of: well-formed steps of the scenario of the   *)
(* specification, a step lacking its locator, steps whose keyword is       *)
(* absent, unknown, or the name of another method of the engine, and a     *)
(* screenshot step.                                                        *)
(***************************************************************************)
StepPool ==
    { [keyword |-> "goto", locator |-> None, value |-> Str(<<"/", "l">>)],
      [keyword |-> "click", locator |-> Str(<<"#", "s">>), value |-> None],
      [keyword |-> "click", locator |-> None, value |-> None],
      [keyword |-> "hover", locator |-> Str(<<"#", "s">>), value |-> None],
      [keyword |-> NoKeyword, locator |-> None, value |-> None],
      [keyword |-> "execute_step", locator |-> None, value |-> None],
      [keyword |-> "screenshot", locator |-> None, value |-> None] }

StepLists == UNION { [1..n -> StepPool] : n \in 0..MaxSteps }

\* crud.get_test_case: None, or the case with its steps in step_order
Cases ==
    {[found |-> FALSE, steps |-> <<>>]}
        \cup {[found |-> TRUE, steps |-> l] : l \in StepLists}

\* crud.get_project: None, or the project with its browser kind
Projects ==
    {[found |-> FALSE, browser |-> "chromium"],
     [found |-> TRUE, browser |-> "chromium"],
     [found |-> TRUE, browser |-> "ie"]}

(***************************************************************************)
(* core/playwright_manager.py                                              *)
(***************************************************************************)
SupportedBrowsers == {"chromium", "firefox", "webkit"}

\* PlaywrightManager.__init__ then __aenter__ (start): "ok" when a browser
\* was launched, "raise" otherwise; launch is the driver's outcome.
OpenBrowser(browser_type, launch) ==
    IF browser_type \notin SupportedBrowsers THEN "raise" ELSE launch

\* Mutant of StopCallsClose: stop() leaves the browser as it is
StopCallsClose_Never(s) == FALSE

\* PlaywrightManager.stop: browser.close() is called only on a browser that
\* is still connected
StopCallsClose(s) == s = "open"

(***************************************************************************)
(* core/runner.py: run_test_case(case_id)                                  *)
(***************************************************************************)
LogEntry(id, level, message, path) ==
    [step_id |-> id, level |-> level, message |-> message,
     screenshot_path |-> path]

\* Mutant of StepLogEntry: the entry is logged without the screenshot path
StepLogEntry_NoPath(id, r) ==
    LogEntry(id, IF r.success THEN "INFO" ELSE "ERROR", r.message, NoPath)

\* runner.py:77-83, the log entry of a step result
StepLogEntry(id, r) ==
    LogEntry(id, IF r.success THEN "INFO" ELSE "ERROR", r.message,
             r.screenshot_path)

\* Mutant of AfterStep: the loop has no break and goes on after a failure
AfterStep_NoBreak(r, i) == [pc |-> "step_loop", i |-> i + 1]

\* runner.py:85-87: where the loop goes after the step at index i was logged
AfterStep(r, i) ==
    IF r.success THEN [pc |-> "step_loop", i |-> i + 1]
    ELSE [pc |-> "tracing_stop", i |-> i]

\* Mutant of FinalStatus: the status ignores all_steps_succeeded
FinalStatus_AlwaysPassed(ok) == "Passed"

\* runner.py:101
FinalStatus(ok) == IF ok THEN "Passed" ELSE "Failed"

\* Mutant of ExceptLog: the handler logs nothing to the run log
ExceptLog_Silent(log) == log

\* runner.py:107, the handler's log: the entries so far and one critical one
ExceptLog(log) == Append(log, LogEntry(NoStepId, "CRITICAL", "error", NoPath))

RunInit ==
    /\ pc = "get_test_case"
    /\ db_case \in Cases
    /\ db_project \in Projects
    /\ step_index = 0
    /\ all_steps_succeeded = TRUE
    /\ run_log_entries = <<>>
    /\ test_status = "Failed"
    /\ report_path = "None"
    /\ session = "none"
    /\ tracing = "none"
    /\ exc_pending = FALSE
    /\ calls = <<>>
    /\ results = <<>>
    /\ saved_runs = <<>>
    /\ save_failures = 0

\* What a driver call that raises may have done to the browser: the error is
\* local to the call, or the browser is gone (is_connected() is False).
AfterDriverError == {"open", "lost"}

\* Mutant of Lookup: what the lookup returned is not tested
Lookup_Unchecked(db, row) == db

\* runner.py:39-45, a crud lookup and the test of what it returned: the
\* lookup raises, or the row is None and ValueError is raised, or neither
Lookup(db, row) == IF db = "ok" /\ ~row.found THEN "raise" ELSE db

\* runner.py:39-41
GetTestCase ==
    /\ pc = "get_test_case"
    /\ calls' = Append(calls, "get_test_case")
    /\ \E db \in Outcomes :
          pc' = IF Lookup(db, db_case) = "ok" THEN "get_project" ELSE "except"
    /\ UNCHANGED <<caseVars, agentVars, routerVars, clientVars, engineVars,
                   saveVars,
                   artifactVars, save_failures,
                   db_case, db_project, step_index, all_steps_succeeded,
                   run_log_entries, test_status, report_path, session,
                   tracing, exc_pending, results, saved_runs>>

\* runner.py:43-45
GetProject ==
    /\ pc = "get_project"
    /\ calls' = Append(calls, "get_project")
    /\ \E db \in Outcomes :
          pc' = IF Lookup(db, db_project) = "ok" THEN "prepare_output"
                ELSE "except"
    /\ UNCHANGED <<caseVars, agentVars, routerVars, clientVars, engineVars,
                   saveVars,
                   artifactVars, save_failures,
                   db_case, db_project, step_index, all_steps_succeeded,
                   run_log_entries, test_status, report_path, session,
                   tracing, exc_pending, results, saved_runs>>

\* runner.py:48-58: the output directory and the run's log file
PrepareOutput ==
    /\ pc = "prepare_output"
    /\ calls' = Append(calls, "makedirs")
    /\ \E fs \in Outcomes :
          pc' = IF fs = "ok" THEN "open_session" ELSE "except"
    /\ UNCHANGED <<caseVars, agentVars, routerVars, clientVars, engineVars,
                   saveVars,
                   artifactVars, save_failures,
                   db_case, db_project, step_index, all_steps_succeeded,
                   run_log_entries, test_status, report_path, session,
                   tracing, exc_pending, results, saved_runs>>

\* runner.py:61: entering the async with; when __aenter__ raises, __aexit__
\* is not called
OpenSession ==
    /\ pc = "open_session"
    /\ calls' = Append(calls, "launch")
    /\ \E launch \in Outcomes :
          IF OpenBrowser(db_project.browser, launch) = "ok"
          THEN pc' = "new_context" /\ session' = "open"
          ELSE pc' = "except" /\ session' = session
    /\ UNCHANGED <<caseVars, agentVars, routerVars, clientVars, engineVars,
                   saveVars,
                   artifactVars, save_failures,
                   db_case, db_project, step_index, all_steps_succeeded,
                   run_log_entries, test_status, report_path, tracing,
                   exc_pending, results, saved_runs>>

\* runner.py:63-64
NewContext ==
    /\ pc = "new_context"
    /\ calls' = Append(calls, "new_context")
    /\ report_path' = "report.zip"
    /\ \/ pc' = "tracing_start" /\ UNCHANGED <<session, exc_pending>>
       \/ /\ pc' = "aexit"
          /\ exc_pending' = TRUE
          /\ session' \in AfterDriverError
    /\ UNCHANGED <<caseVars, agentVars, routerVars, clientVars, engineVars,
                   saveVars,
                   artifactVars, save_failures,
                   db_case, db_project, step_index, all_steps_succeeded,
                   run_log_entries, test_status, tracing, results, saved_runs>>

\* runner.py:65
TracingStart ==
    /\ pc = "tracing_start"
    /\ calls' = Append(calls, "tracing.start")
    /\ \/ pc' = "new_page" /\ tracing' = "started"
          /\ UNCHANGED <<session, exc_pending>>
       \/ /\ pc' = "aexit"
          /\ exc_pending' = TRUE
          /\ session' \in AfterDriverError
          /\ UNCHANGED tracing
    /\ UNCHANGED <<caseVars, agentVars, routerVars, clientVars, engineVars,
                   saveVars,
                   artifactVars, save_failures,
                   db_case, db_project, step_index, all_steps_succeeded,
                   run_log_entries, test_status, report_path, results,
                   saved_runs>>

\* runner.py:67-71: the page, the engine (its screenshot directory) and
\* all_steps_succeeded = True
NewPage ==
    /\ pc = "new_page"
    /\ calls' = Append(calls, "new_page")
    /\ \/ /\ pc' = "step_loop"
          /\ all_steps_succeeded' = TRUE
          /\ UNCHANGED <<session, exc_pending>>
       \/ /\ pc' = "aexit"
          /\ exc_pending' = TRUE
          /\ session' \in AfterDriverError
          /\ UNCHANGED all_steps_succeeded
    /\ UNCHANGED <<caseVars, agentVars, routerVars, clientVars, engineVars,
                   saveVars,
                   artifactVars, save_failures,
                   db_case, db_project, step_index, run_log_entries,
                   test_status, report_path, tracing, results, saved_runs>>

\* runner.py:72-87: one turn of the step loop
RunStep ==
    /\ pc = "step_loop"
    /\ step_index < Len(db_case.steps)
    /\ calls' = Append(calls, "execute_step")
    /\ \E driver \in Outcomes, shot \in Outcomes :
          LET id == step_index + 1
              r == execute_step(db_case.steps[id], id, driver, shot)
          IN  /\ results' = Append(results, [id |-> id, result |-> r])
              /\ IF r.raised
                 THEN /\ pc' = "aexit"
                      /\ exc_pending' = TRUE
                      /\ session' \in AfterDriverError
                      /\ UNCHANGED <<step_index, all_steps_succeeded,
                                     run_log_entries>>
                 ELSE /\ run_log_entries' =
                            Append(run_log_entries, StepLogEntry(id, r))
                      /\ all_steps_succeeded' =
                            (all_steps_succeeded /\ r.success)
                      /\ pc' = AfterStep(r, step_index).pc
                      /\ step_index' = AfterStep(r, step_index).i
                      /\ UNCHANGED <<session, exc_pending>>
    /\ UNCHANGED <<caseVars, agentVars, routerVars, clientVars, engineVars,
                   saveVars,
                   artifactVars, save_failures,
                   db_case, db_project, test_status, report_path,
                   tracing, saved_runs>>

\* runner.py:72: the loop has no step left
LoopEnd ==
    /\ pc = "step_loop"
    /\ step_index = Len(db_case.steps)
    /\ pc' = "tracing_stop"
    /\ UNCHANGED <<caseVars, agentVars, routerVars, clientVars, engineVars,
                   saveVars,
                   artifactVars, save_failures,
                   db_case, db_project, step_index,
                   all_steps_succeeded, run_log_entries, test_status,
                   report_path, session, tracing, exc_pending, calls, results,
                   saved_runs>>

\* runner.py:90-91
TracingStop ==
    /\ pc = "tracing_stop"
    /\ calls' = Append(calls, "tracing.stop")
    /\ \/ pc' = "page_close" /\ tracing' = "stopped"
          /\ UNCHANGED <<session, exc_pending>>
       \/ /\ pc' = "aexit"
          /\ exc_pending' = TRUE
          /\ session' \in AfterDriverError
          /\ UNCHANGED tracing
    /\ UNCHANGED <<caseVars, agentVars, routerVars, clientVars, engineVars,
                   saveVars,
                   artifactVars, save_failures,
                   db_case, db_project, step_index,
                   all_steps_succeeded, run_log_entries, test_status,
                   report_path, results, saved_runs>>

\* runner.py:92
PageClose ==
    /\ pc = "page_close"
    /\ calls' = Append(calls, "page.close")
    /\ \/ pc' = "context_close" /\ UNCHANGED <<session, exc_pending>>
       \/ /\ pc' = "aexit"
          /\ exc_pending' = TRUE
          /\ session' \in AfterDriverError
    /\ UNCHANGED <<caseVars, agentVars, routerVars, clientVars, engineVars,
                   saveVars,
                   artifactVars, save_failures,
                   db_case, db_project, step_index,
                   all_steps_succeeded, run_log_entries, test_status,
                   report_path, tracing, results, saved_runs>>

\* runner.py:93-98
ContextClose ==
    /\ pc = "context_close"
    /\ calls' = Append(calls, "context.close")
    /\ pc' = "aexit"
    /\ \/ report_path' = "trace.zip" /\ UNCHANGED <<session, exc_pending>>
       \/ /\ exc_pending' = TRUE
          /\ session' \in AfterDriverError
          /\ UNCHANGED report_path
    /\ UNCHANGED <<caseVars, agentVars, routerVars, clientVars, engineVars,
                   saveVars,
                   artifactVars, save_failures,
                   db_case, db_project, step_index,
                   all_steps_succeeded, run_log_entries, test_status, tracing,
                   results, saved_runs>>

\* Leaving the async with, normally or with an exception:
\* PlaywrightManager.__aexit__, playwright_manager.py:23-36.  An exception
\* raised by stop() replaces the one that was unwinding.
AExit ==
    /\ pc = "aexit"
    /\ \E close \in Outcomes, stop \in Outcomes :
          IF StopCallsClose(session)
          THEN /\ calls' = Append(calls, "browser.close")
               /\ IF close = "ok"
                  THEN /\ session' = "closed"
                       /\ exc_pending' = (exc_pending \/ stop = "raise")
                  ELSE /\ session' \in AfterDriverError
                       /\ exc_pending' = TRUE
          ELSE /\ calls' = Append(calls, "playwright.stop")
               /\ session' = session
               /\ exc_pending' = (exc_pending \/ stop = "raise")
    /\ pc' = IF exc_pending' THEN "except" ELSE "set_status"
    /\ UNCHANGED <<caseVars, agentVars, routerVars, clientVars, engineVars,
                   saveVars,
                   artifactVars, save_failures,
                   db_case, db_project, step_index,
                   all_steps_succeeded, run_log_entries, test_status,
                   report_path, tracing, results, saved_runs>>

\* runner.py:101-102
SetStatus ==
    /\ pc = "set_status"
    /\ test_status' = FinalStatus(all_steps_succeeded)
    /\ pc' = "finally"
    /\ UNCHANGED <<caseVars, agentVars, routerVars, clientVars, engineVars,
                   saveVars,
                   artifactVars, save_failures,
                   db_case, db_project, step_index,
                   all_steps_succeeded, run_log_entries, report_path, session,
                   tracing, exc_pending, calls, results, saved_runs>>

\* runner.py:104-107
Except ==
    /\ pc = "except"
    /\ calls' = Append(calls, "except")
    /\ test_status' = "Failed"
    /\ run_log_entries' = ExceptLog(run_log_entries)
    /\ exc_pending' = FALSE
    /\ pc' = "finally"
    /\ UNCHANGED <<caseVars, agentVars, routerVars, clientVars, engineVars,
                   saveVars,
                   artifactVars, save_failures,
                   db_case, db_project, step_index,
                   all_steps_succeeded, report_path, session, tracing,
                   results, saved_runs>>

\* save_run_results, runner.py:121-139, numbers its statements: 0 opens the
\* connection, 1 inserts the run row, 2 reads the run id back, 3..n+2 insert
\* the n log rows, n+3 is the commit; n+4 stands for "no statement fails"
NoFailure(logs) == Len(logs) + 4

\* The ways a statement fails: a mysql.connector Error, or another exception
FailureKinds == {"Error", "other"}

\* runner.py:127-139: what the statements before fail_at have written inside
\* the transaction
Written(status, path, logs, fail_at) ==
    IF fail_at <= 1
    THEN <<>>
    ELSE LET n == IF fail_at - 3 < Len(logs) THEN fail_at - 3 ELSE Len(logs)
         IN  <<[status |-> status, report_path |-> path,
                logs |-> SubSeq(logs, 1, IF n < 0 THEN 0 ELSE n)]>>

\* A cursor on a connection that commits every statement as it is executed
get_db_cursor_autocommit(written, failed, kind) == written

\* get_db_cursor(commit=True), database.py:36-51, and get_db_connection,
\* :24-34: what the store keeps of the rows written.  An Error is rolled
\* back; after another exception nothing is committed and the connection is
\* closed, which discards the open transaction; otherwise it is committed.
get_db_cursor(written, failed, kind) ==
    CASE ~failed        -> written
      [] kind = "Error" -> <<>>
      [] OTHER          -> <<>>

\* Mutant of save_run_results: the failure is not caught
save_run_results_Uncaught(status, path, logs, fail_at, kind) ==
    LET failed == fail_at < NoFailure(logs)
    IN  [stored |-> get_db_cursor(Written(status, path, logs, fail_at),
                                  failed, kind),
         logged |-> FALSE,
         raised |-> failed]

\* save_run_results, runner.py:121-147: the rows stored, whether the failure
\* was logged, and whether an exception leaves the function
save_run_results(status, path, logs, fail_at, kind) ==
    LET failed == fail_at < NoFailure(logs)
    IN  [stored |-> get_db_cursor(Written(status, path, logs, fail_at),
                                  failed, kind),
         logged |-> failed,
         raised |-> FALSE]

(***************************************************************************)
(* save_run_results called by several processes at once (run_tests.py, the *)
(* agent clients), each on its own connection: the statements of            *)
(* runner.py:124-142 one by one, against one record store.  A transaction  *)
(* reads what is committed when it reads, and its own rows.                *)
(***************************************************************************)
Savers == {"s1", "s2"}

\* case_id of the runs that are saved
SaveCases == {1, 2}

\* run_id before the SELECT
NoRunId == 0

SaveIdle ==
    /\ test_runs = {}
    /\ run_logs = {}
    /\ next_run_id = 0
    /\ saver = [s \in Savers |->
                   [pc |-> "idle", case_id |-> 1, logs |-> 0,
                    run_id |-> NoRunId]]

SaveInit ==
    /\ test_runs = {}
    /\ run_logs = {}
    /\ next_run_id = 0
    /\ saver \in [Savers ->
                     {[pc |-> "insert_run", case_id |-> c, logs |-> n,
                       run_id |-> NoRunId] :
                         c \in SaveCases, n \in 0..MaxLogs}]

\* The rows of test_runs the transaction of s reads
Visible(s) == {r \in test_runs : r.committed \/ r.owner = s}

\* runner.py:134-135: SELECT id FROM test_runs WHERE case_id = %s
\* ORDER BY id DESC LIMIT 1, then fetchone()['id']
SelectRunId(rows, case_id) ==
    LET ids == {r.id : r \in {x \in rows : x.case_id = case_id}}
    IN  CHOOSE i \in ids : \A j \in ids : j <= i

AfterSelect(logs) == IF logs = 0 THEN "commit" ELSE "insert_log"

\* runner.py:127-131: INSERT INTO test_runs
SaveInsertRun(s) ==
    /\ saver[s].pc = "insert_run"
    /\ next_run_id' = next_run_id + 1
    /\ test_runs' = test_runs \cup
          {[id |-> next_run_id', case_id |-> saver[s].case_id, owner |-> s,
            committed |-> FALSE]}
    /\ saver' = [saver EXCEPT ![s].pc = "select_id"]
    /\ UNCHANGED <<coreVars, engineVars, artifactVars, caseVars, agentVars,
                   routerVars,
                   clientVars,
                   run_logs>>

\* runner.py:134-135: the run id is read back
SaveSelectId(s) ==
    /\ saver[s].pc = "select_id"
    /\ saver' = [saver EXCEPT
                    ![s].run_id = SelectRunId(Visible(s), saver[s].case_id),
                    ![s].pc = AfterSelect(saver[s].logs)]
    /\ UNCHANGED <<coreVars, engineVars, artifactVars, caseVars, agentVars,
                   routerVars,
                   clientVars,
                   test_runs, run_logs, next_run_id>>

\* runner.py:138-143: INSERT INTO run_logs, one turn of the loop
SaveInsertLog(s) ==
    /\ saver[s].pc = "insert_log"
    /\ run_logs' = run_logs \cup
          {[run_id |-> saver[s].run_id, owner |-> s, n |-> saver[s].logs,
            committed |-> FALSE]}
    /\ saver' = [saver EXCEPT ![s].logs = @ - 1,
                              ![s].pc = AfterSelect(saver[s].logs - 1)]
    /\ UNCHANGED <<coreVars, engineVars, artifactVars, caseVars, agentVars,
                   routerVars,
                   clientVars,
                   test_runs, next_run_id>>

\* database.py:47-49: leaving the with block, conn.commit()
SaveCommit(s) ==
    /\ saver[s].pc = "commit"
    /\ test_runs' = {IF r.owner = s THEN [r EXCEPT !.committed = TRUE] ELSE r :
                        r \in test_runs}
    /\ run_logs' = {IF l.owner = s THEN [l EXCEPT !.committed = TRUE] ELSE l :
                       l \in run_logs}
    /\ saver' = [saver EXCEPT ![s].pc = "done"]
    /\ UNCHANGED <<coreVars, engineVars, artifactVars, caseVars, agentVars,
                   routerVars,
                   clientVars,
                   next_run_id>>

\* database.py:43-46 and runner.py:146-147: a statement raises; what the
\* transaction wrote is rolled back and the failure is logged
SaveFails(s) ==
    /\ saver[s].pc \in {"insert_run", "select_id", "insert_log", "commit"}
    /\ test_runs' = {r \in test_runs : r.owner # s}
    /\ run_logs' = {l \in run_logs : l.owner # s}
    /\ saver' = [saver EXCEPT ![s].pc = "failed"]
    /\ UNCHANGED <<coreVars, engineVars, artifactVars, caseVars, agentVars,
                   routerVars,
                   clientVars,
                   next_run_id>>

SaveNext ==
    \E s \in Savers :
        \/ SaveInsertRun(s)
        \/ SaveSelectId(s)
        \/ SaveInsertLog(s)
        \/ SaveCommit(s)
        \/ SaveFails(s)

(***************************************************************************)
(* run_test_case called by several processes at once in one working        *)
(* directory: the files each run writes, runner.py:47-56 and :89-98,       *)
(* keyword_engine.py:26-31 and :58-62.                                     *)
(***************************************************************************)
Runs == {"r1", "r2"}

\* datetime.now(): a second and the microseconds within it
StartTimes == [sec : 0..MaxTime, micro : {0, 1}]

\* runner.py:48, start_time.strftime("%Y%m%d_%H%M%S"): the time to the second
strftime(t) == t.sec

\* runner.py:49: os.path.join("reports", f"run_{case_id}_{run_timestamp}")
OutputDir(case_id, start_time) ==
    <<"reports", "run", case_id, strftime(start_time)>>

\* runner.py:53
LogFilePath(output_dir) == output_dir \o <<"run.log">>

\* runner.py:90
TracePath(output_dir) == output_dir \o <<"trace.zip">>

\* keyword_engine.py:30 and :61: the failure screenshot of step id
FailureScreenshotPath(output_dir, id) ==
    output_dir \o <<"screenshots", "step", id, "failure.png">>

ArtifactsIdle ==
    /\ procs = [p \in Runs |->
                   [pc |-> "idle", case_id |-> 1,
                    start_time |-> [sec |-> 0, micro |-> 0]]]
    /\ files = {}

ArtifactsInit ==
    /\ procs \in [Runs ->
                     {[pc |-> "prepare", case_id |-> c, start_time |-> t] :
                         c \in SaveCases, t \in StartTimes}]
    /\ files = {}

\* The output directory of the run of process p
Dir(p) == OutputDir(procs[p].case_id, procs[p].start_time)

Write(p, path) == files \cup {[path |-> path, writer |-> p]}

\* runner.py:47-56: makedirs(exist_ok=True) and the FileHandler of run.log
ArtifactsPrepare(p) ==
    /\ procs[p].pc = "prepare"
    /\ files' = Write(p, LogFilePath(Dir(p)))
    /\ procs' = [procs EXCEPT ![p].pc = "steps"]
    /\ UNCHANGED <<coreVars, engineVars, saveVars, caseVars, agentVars,
                   routerVars,
                   clientVars>>

\* keyword_engine.py:58-62: a step fails and its screenshot is written;
\* the loop ends with it
ArtifactsScreenshot(p) ==
    /\ procs[p].pc = "steps"
    /\ \E id \in 1..MaxSteps :
          files' = Write(p, FailureScreenshotPath(Dir(p), id))
    /\ procs' = [procs EXCEPT ![p].pc = "trace"]
    /\ UNCHANGED <<coreVars, engineVars, saveVars, caseVars, agentVars,
                   routerVars,
                   clientVars>>

\* runner.py:89-91: tracing.stop(path=trace_path), after a loop that failed
\* or one that did not
ArtifactsTrace(p) ==
    /\ procs[p].pc \in {"steps", "trace"}
    /\ files' = Write(p, TracePath(Dir(p)))
    /\ procs' = [procs EXCEPT ![p].pc = "done"]
    /\ UNCHANGED <<coreVars, engineVars, saveVars, caseVars, agentVars,
                   routerVars,
                   clientVars>>

ArtifactsNext ==
    \E p \in Runs :
        \/ ArtifactsPrepare(p)
        \/ ArtifactsScreenshot(p)
        \/ ArtifactsTrace(p)

\* runner.py:109-119: the finally clause of run_test_case
Finally ==
    /\ pc = "finally"
    /\ \E fail_at \in 0..NoFailure(run_log_entries), kind \in FailureKinds :
          LET r == save_run_results(test_status, report_path,
                                    run_log_entries, fail_at, kind)
          IN  /\ saved_runs' = saved_runs \o r.stored
              /\ calls' = Append(calls, "save_run_results")
              /\ save_failures' =
                    IF r.logged THEN save_failures + 1 ELSE save_failures
              /\ pc' = IF r.raised THEN "raised" ELSE "done"
    /\ UNCHANGED <<caseVars, agentVars, routerVars, clientVars, engineVars,
                   saveVars,
                   artifactVars,
                   db_case, db_project, step_index,
                   all_steps_succeeded, run_log_entries, test_status,
                   report_path, session, tracing, exc_pending, results>>

RunNext ==
    \/ GetTestCase
    \/ GetProject
    \/ PrepareOutput
    \/ OpenSession
    \/ NewContext
    \/ TracingStart
    \/ NewPage
    \/ RunStep
    \/ LoopEnd
    \/ TracingStop
    \/ PageClose
    \/ ContextClose
    \/ AExit
    \/ SetStatus
    \/ Except
    \/ Finally

(***************************************************************************)
(* agent/models.py and agent/manager.py: AgentManager                      *)
(***************************************************************************)
\* AgentCommand
AgentCommands ==
    {"run_test_case", "run_module", "run_project", "ping", "shutdown"}

\* manager.py:81 and :113, the commands that make the agent busy
ExecutionCommands == {"run_test_case", "run_module", "run_project"}

\* The commands the callers of the model dispatch: one that makes the agent
\* busy and one that does not
DispatchedCommands == {"run_test_case", "ping"}

\* The concurrent callers of send_command
Callers == {"d1", "d2"}

AgentIds == 1..MaxAgents

\* A dict without key k
Remove(f, k) == [x \in DOMAIN f \ {k} |-> f[x]]

\* AgentStatus, models.py:9-14
AgentStatuses == {"online", "offline", "busy", "error"}

\* Mutant of update_agent_status: the status is set, last_seen is left
update_agent_status_NoRefresh(ag, agent_id, status, t) ==
    IF agent_id \in DOMAIN ag
    THEN [ag EXCEPT ![agent_id].status = status]
    ELSE ag

\* update_agent_status, manager.py:50-54, on the agents dict ag at time t
update_agent_status(ag, agent_id, status, t) ==
    IF agent_id \in DOMAIN ag
    THEN [ag EXCEPT ![agent_id].status = status, ![agent_id].last_seen = t]
    ELSE ag

\* update_agent_status called on its own, with any id and any status
UpdateStatus(agent_id, status) ==
    /\ agents' = update_agent_status(agents, agent_id, status, now)
    /\ UNCHANGED <<runVars, routerVars, clientVars, command_queues,
                   agent_connections, detached, getters, answered, timed_out,
                   next_agent, next_command, now, dpc, dcmd, dagent, dresult,
                   dstatus>>

\* manager.py:80-82: the status change send_command makes before it enqueues
StatusBeforeEnqueue(ag, agent_id, command, t) ==
    IF command \in ExecutionCommands
    THEN update_agent_status(ag, agent_id, "busy", t)
    ELSE ag

\* Mutant of StatusFinally: the status is reset after every command
StatusFinally_Always(ag, agent_id, command, t) ==
    update_agent_status(ag, agent_id, "online", t)

\* manager.py:111-114: the finally clause of send_command
StatusFinally(ag, agent_id, command, t) ==
    IF command \in ExecutionCommands
    THEN update_agent_status(ag, agent_id, "online", t)
    ELSE ag

\* Mutant of StatusAfterTimeout: the status is assigned without the test
\* that the id is registered, which makes an entry for it
StatusAfterTimeout_Recreate(ag, agent_id, command, t) ==
    [a \in DOMAIN ag \cup {agent_id} |->
        IF a = agent_id
        THEN [status |-> IF command \in ExecutionCommands
                         THEN "online" ELSE "error",
              last_seen |-> t, created_at |-> t]
        ELSE ag[a]]

\* manager.py:95-101 then :111-114: the agents dict after a timeout
StatusAfterTimeout(ag, agent_id, command, t) ==
    StatusFinally(update_agent_status(ag, agent_id, "error", t),
                  agent_id, command, t)

\* What a status query (get_agent) answers for agent_id
StatusOf(ag, agent_id) ==
    IF agent_id \in DOMAIN ag THEN ag[agent_id].status ELSE "unregistered"

NoCommand == [id |-> 0, command |-> "ping"]

\* What send_command returned: its kind, the command the response answers
\* and (history) the agent the response was handled for
NoResult == [kind |-> "none", for |-> 0, from |-> 0]

AgentInit ==
    /\ agents = <<>>
    /\ command_queues = <<>>
    /\ agent_connections = <<>>
    /\ detached = <<>>
    /\ getters = [a \in AgentIds |-> <<>>]
    /\ answered = {}
    /\ timed_out = {}
    /\ next_agent = 0
    /\ next_command = 0
    /\ now = 0
    /\ dpc = [d \in Callers |-> "idle"]
    /\ dcmd = [d \in Callers |-> NoCommand]
    /\ dagent = [d \in Callers |-> 0]
    /\ dresult = [d \in Callers |-> NoResult]
    /\ dstatus = [d \in Callers |-> "none"]

\* register_agent, manager.py:24-37; uuid4 gives an id never given before
RegisterAgent ==
    /\ next_agent < MaxAgents
    /\ LET agent_id == next_agent + 1
       IN  /\ next_agent' = agent_id
           /\ agents' = agents @@ (agent_id :>
                  [status |-> "online", last_seen |-> now, created_at |-> now])
           /\ agent_connections' = agent_connections @@ (agent_id :> <<>>)
           /\ command_queues' = command_queues @@ (agent_id :> <<>>)
    /\ UNCHANGED <<runVars, routerVars, clientVars,
                   detached, getters, answered, timed_out,
                   next_command, now, dpc, dcmd, dagent, dresult, dstatus>>

\* Caller d is inside send_command, between the enqueue of its command and
\* its return
InFlight(d) == dpc[d] \in {"suspended", "woken"}

\* The callers whose command for agent_id is in flight
Waiting(agent_id) == {d \in Callers : InFlight(d) /\ dagent[d] = agent_id}

\* unregister_agent, manager.py:39-48.  The response queue leaves the dict;
\* a caller suspended on it keeps the queue object.
UnregisterAgent(agent_id) ==
    /\ agents' = IF agent_id \in DOMAIN agents
                 THEN Remove(agents, agent_id) ELSE agents
    /\ command_queues' = IF agent_id \in DOMAIN command_queues
                         THEN Remove(command_queues, agent_id)
                         ELSE command_queues
    /\ agent_connections' = IF agent_id \in DOMAIN agent_connections
                            THEN Remove(agent_connections, agent_id)
                            ELSE agent_connections
    /\ detached' = IF agent_id \in DOMAIN agent_connections
                      /\ Waiting(agent_id) # {}
                   THEN detached @@ (agent_id :> agent_connections[agent_id])
                   ELSE detached
    /\ UNCHANGED <<runVars, routerVars, clientVars,
                   getters, answered, timed_out, next_agent,
                   next_command, now, dpc, dcmd, dagent, dresult, dstatus>>

\* A response returned to the caller
Response(r) == [kind |-> "response", for |-> r.for, from |-> r.from]

\* send_command, manager.py:71-94, up to its first suspension.  The put on
\* an unbounded queue does not suspend, and neither does the get() on a
\* response queue that is not empty: the call then runs to its return.
\* On an empty queue the caller is suspended, behind the callers already
\* suspended on it.
SendCommand(d, agent_id, command) ==
    /\ ~InFlight(d)
    /\ next_command < MaxCommands
    /\ next_command' = next_command + 1
    /\ dcmd' = [dcmd EXCEPT ![d] = [id |-> next_command', command |-> command]]
    /\ dagent' = [dagent EXCEPT ![d] = agent_id]
    /\ IF agent_id \notin DOMAIN command_queues
       THEN /\ dpc' = [dpc EXCEPT ![d] = "returned"]
            /\ dresult' = [dresult EXCEPT ![d] =
                              [kind |-> "not_found", for |-> 0, from |-> 0]]
            /\ dstatus' = [dstatus EXCEPT ![d] = StatusOf(agents, agent_id)]
            /\ UNCHANGED <<agents, command_queues, agent_connections, getters>>
       ELSE /\ command_queues' =
                  [command_queues EXCEPT ![agent_id] = Append(@, dcmd'[d])]
            /\ IF agent_connections[agent_id] # <<>>
               THEN /\ agent_connections' =
                          [agent_connections EXCEPT ![agent_id] = Tail(@)]
                    /\ agents' =
                          StatusFinally(
                              StatusBeforeEnqueue(agents, agent_id, command, now),
                              agent_id, command, now)
                    /\ dpc' = [dpc EXCEPT ![d] = "returned"]
                    /\ dresult' = [dresult EXCEPT ![d] =
                                      Response(Head(agent_connections[agent_id]))]
                    /\ dstatus' = [dstatus EXCEPT ![d] =
                                      StatusOf(agents', agent_id)]
                    /\ UNCHANGED getters
               ELSE /\ agents' =
                          StatusBeforeEnqueue(agents, agent_id, command, now)
                    /\ dpc' = [dpc EXCEPT ![d] = "suspended"]
                    /\ getters' = [getters EXCEPT ![agent_id] = Append(@, d)]
                    /\ dresult' = [dresult EXCEPT ![d] = NoResult]
                    /\ dstatus' = [dstatus EXCEPT ![d] = "none"]
                    /\ UNCHANGED agent_connections
    /\ UNCHANGED <<runVars, routerVars, clientVars,
                   detached, answered, timed_out, next_agent, now>>

\* Mutant of WaitQueue: the caller reads the response queue of any agent
WaitQueue_Any(d) ==
    LET full == {a \in DOMAIN agent_connections : agent_connections[a] # <<>>}
    IN  IF full # {} THEN agent_connections[CHOOSE a \in full : TRUE]
        ELSE <<>>

\* The response queue caller d waits on
WaitQueue(d) ==
    IF dagent[d] \in DOMAIN agent_connections
    THEN agent_connections[dagent[d]]
    ELSE detached[dagent[d]]

\* send_command, manager.py:90-94 and :111-114: the caller, woken by a put,
\* finds the response in the queue and returns it
ReceiveResponse(d) ==
    /\ dpc[d] = "woken"
    /\ WaitQueue(d) # <<>>
    /\ IF dagent[d] \in DOMAIN agent_connections
       THEN /\ agent_connections' =
                  [agent_connections EXCEPT ![dagent[d]] = Tail(@)]
            /\ UNCHANGED detached
       ELSE /\ detached' = [detached EXCEPT ![dagent[d]] = Tail(@)]
            /\ UNCHANGED agent_connections
    /\ agents' = StatusFinally(agents, dagent[d], dcmd[d].command, now)
    /\ dpc' = [dpc EXCEPT ![d] = "returned"]
    /\ dresult' = [dresult EXCEPT ![d] = Response(Head(WaitQueue(d)))]
    /\ dstatus' = [dstatus EXCEPT ![d] = StatusOf(agents', dagent[d])]
    /\ UNCHANGED <<runVars, routerVars, clientVars,
                   command_queues, getters, answered, timed_out,
                   next_agent, next_command, now, dcmd, dagent>>

\* send_command, manager.py:90-93: the caller, woken by a put, finds the
\* queue empty (another send_command took the response meanwhile) and is
\* suspended again
SuspendAgain(d) ==
    /\ dpc[d] = "woken"
    /\ WaitQueue(d) = <<>>
    /\ dpc' = [dpc EXCEPT ![d] = "suspended"]
    /\ getters' = [getters EXCEPT ![dagent[d]] = Append(@, d)]
    /\ UNCHANGED <<runVars, routerVars, clientVars,
                   agents, command_queues, agent_connections,
                   detached, answered, timed_out, next_agent, next_command,
                   now, dcmd, dagent, dresult, dstatus>>

\* send_command, manager.py:95-101 and :111-114: command.timeout elapsed
\* while the caller was suspended
CommandTimeout(d) ==
    /\ dpc[d] = "suspended"
    /\ getters' = [getters EXCEPT ![dagent[d]] =
                      SelectSeq(@, LAMBDA g : g # d)]
    /\ agents' = StatusAfterTimeout(agents, dagent[d], dcmd[d].command, now)
    /\ timed_out' = timed_out \cup {dcmd[d].id}
    /\ dpc' = [dpc EXCEPT ![d] = "returned"]
    /\ dresult' = [dresult EXCEPT ![d] = [kind |-> "timeout", for |-> 0,
                                       from |-> 0]]
    /\ dstatus' = [dstatus EXCEPT ![d] = StatusOf(agents', dagent[d])]
    /\ UNCHANGED <<runVars, routerVars, clientVars,
                   command_queues, agent_connections, detached,
                   answered, next_agent, next_command, now, dcmd, dagent>>

\* handle_agent_response, manager.py:116-119: the agent delivers the response
\* it produced for command c, one of the commands dispatched to it.  The put
\* wakes the caller suspended longest on the queue.
HandleAgentResponse(agent_id, c) ==
    /\ agent_id \in DOMAIN agent_connections
    /\ c \notin answered
    /\ \E n \in 1..Len(command_queues[agent_id]) :
          command_queues[agent_id][n].id = c
    /\ answered' = answered \cup {c}
    /\ agent_connections' =
          [agent_connections EXCEPT ![agent_id] =
              Append(@, [for |-> c, from |-> agent_id])]
    /\ IF getters[agent_id] # <<>>
       THEN /\ getters' = [getters EXCEPT ![agent_id] = Tail(@)]
            /\ dpc' = [dpc EXCEPT ![Head(getters[agent_id])] = "woken"]
       ELSE UNCHANGED <<getters, dpc>>
    /\ UNCHANGED <<runVars, routerVars, clientVars,
                   agents, command_queues, detached, timed_out,
                   next_agent, next_command, now, dcmd, dagent, dresult,
                   dstatus>>

DispatchNext ==
    \/ RegisterAgent
    \/ \E a \in AgentIds : UnregisterAgent(a)
    \/ \E d \in Callers, a \in AgentIds, c \in DispatchedCommands :
          SendCommand(d, a, c)
    \/ \E d \in Callers : ReceiveResponse(d)
    \/ \E d \in Callers : SuspendAgain(d)
    \/ \E d \in Callers : CommandTimeout(d)
    \/ \E a \in AgentIds, c \in 1..MaxCommands : HandleAgentResponse(a, c)

(***************************************************************************)
(* agent/router.py: the routes, and the maintenance sweep of the manager   *)
(***************************************************************************)
\* The ids a route can be called with: the ids handed out so far and 0, an
\* id that is never handed out.  An id uuid4 has not produced yet cannot be
\* presented.
PresentableIds == {a \in 0..MaxAgents : a <= next_agent}

\* The inactivity thresholds the sweep is invoked with, in clock readings
Thresholds == {0, 1}

NoRoute == [route |-> "none", registered |-> FALSE, kind |-> "none"]

\* What a route call answered; registered tells whether the agent was in the
\* registry when the route was called
RouteResult(route, agent_id, kind) ==
    [route |-> route, registered |-> agent_id \in DOMAIN agents,
     kind |-> kind]

\* d[k] = v, for a dict d
Set(d, k, v) == [x \in DOMAIN d \cup {k} |-> IF x = k THEN v ELSE d[x]]

\* A backlog that grows at its front, so that the newest command is polled
\* first
AppendCommand_Front(backlogs, agent_id, command) ==
    Set(backlogs, agent_id,
        <<command>> \o (IF agent_id \in DOMAIN backlogs
                        THEN backlogs[agent_id] ELSE <<>>))

\* router.py:82-84 and :144-146: append to the backlog, created when absent
AppendCommand(backlogs, agent_id, command) ==
    Set(backlogs, agent_id,
        Append(IF agent_id \in DOMAIN backlogs
               THEN backlogs[agent_id] ELSE <<>>, command))

\* The pending-command backlog the polls of agent_id read
Backlog(agent_id) ==
    IF agent_id \in DOMAIN agent_commands
    THEN agent_commands[agent_id] ELSE <<>>

RouterInit ==
    /\ agent_commands = <<>>
    /\ enqueued = [a \in 0..MaxAgents |-> <<>>]
    /\ polled = [a \in 0..MaxAgents |-> <<>>]
    /\ route_result = NoRoute

\* An agent entered in the registry with the status the client reported
NewAgentInfo_AsReported(t) ==
    [status |-> "offline", last_seen |-> t, created_at |-> t]

\* manager.py:27-30: the AgentInfo register_agent stores
NewAgentInfo(t) == [status |-> "online", last_seen |-> t, created_at |-> t]

\* register_agent, router.py:22-43
OnRegister ==
    /\ next_agent < MaxAgents
    /\ LET agent_id == next_agent + 1
       IN  /\ next_agent' = agent_id
           /\ agents' = agents @@ (agent_id :> NewAgentInfo(now))
           /\ agent_connections' = agent_connections @@ (agent_id :> <<>>)
           /\ command_queues' = command_queues @@ (agent_id :> <<>>)
           /\ agent_commands' = Set(agent_commands, agent_id, <<>>)
           /\ enqueued' = [enqueued EXCEPT ![agent_id] = <<>>]
           /\ polled' = [polled EXCEPT ![agent_id] = <<>>]
           /\ route_result' =
                 [RouteResult("register", agent_id, "ok")
                     EXCEPT !.registered = FALSE]
    /\ UNCHANGED <<runVars, detached, getters, answered,
                   timed_out, next_command, now, dpc, dcmd, dagent, dresult,
                   dstatus>>

\* The register route, called by an agent other than the client modelled
RouteRegister == OnRegister /\ UNCHANGED clientVars

\* A dict without the keys in ks
Without(f, ks) == [x \in DOMAIN f \ ks |-> f[x]]

\* The response queues that leave agent_connections with the agents in ks
\* while a suspended caller still holds them
Detach(ks) ==
    LET held == {a \in ks \cap DOMAIN agent_connections : Waiting(a) # {}}
    IN  [a \in DOMAIN detached \cup held |->
            IF a \in held THEN agent_connections[a] ELSE detached[a]]

\* unregister_agent, router.py:45-53
OnUnregister(agent_id) ==
    /\ agent_id \in PresentableIds
    /\ agents' = Without(agents, {agent_id})
    /\ command_queues' = Without(command_queues, {agent_id})
    /\ agent_connections' = Without(agent_connections, {agent_id})
    /\ detached' = Detach({agent_id})
    /\ agent_commands' = Without(agent_commands, {agent_id})
    /\ enqueued' = [enqueued EXCEPT ![agent_id] = <<>>]
    /\ polled' = [polled EXCEPT ![agent_id] = <<>>]
    /\ route_result' = RouteResult("unregister", agent_id, "ok")
    /\ UNCHANGED <<runVars, getters, answered, timed_out,
                   next_agent, next_command, now, dpc, dcmd, dagent, dresult,
                   dstatus>>

\* The unregister route, called by anyone but the client modelled
RouteUnregister(agent_id) == OnUnregister(agent_id) /\ UNCHANGED clientVars

\* send_command_to_agent, router.py:72-89
OnCommand(agent_id, command) ==
    /\ agent_id \in PresentableIds
    /\ IF agent_id \notin DOMAIN agents
       THEN /\ route_result' =
                  RouteResult("command", agent_id, "not_found")
            /\ UNCHANGED <<agent_commands, enqueued, next_command>>
       ELSE /\ next_command < MaxCommands
            /\ next_command' = next_command + 1
            /\ LET c == [id |-> next_command', command |-> command]
               IN  /\ agent_commands' =
                         AppendCommand(agent_commands, agent_id, c)
                   /\ enqueued' = [enqueued EXCEPT ![agent_id] = Append(@, c)]
                   /\ route_result' =
                         RouteResult("command", agent_id, "ok")
    /\ UNCHANGED <<runVars, agents, command_queues,
                   agent_connections, detached, getters, answered, timed_out,
                   next_agent, now, dpc, dcmd, dagent, dresult, dstatus,
                   polled>>

\* The send-command route, called by anyone but the client modelled
RouteSendCommand(agent_id, command) ==
    OnCommand(agent_id, command) /\ UNCHANGED clientVars

\* What crud.get_test_case and crud.get_project find for the route
Lookups == {"found", "no_case", "no_project"}

\* run_test_case_on_agent, router.py:110-151
RouteRunTestCase(agent_id, lookup) ==
    /\ agent_id \in PresentableIds
    /\ IF lookup # "found"
       THEN /\ route_result' =
                  RouteResult("run_testcase", agent_id, lookup)
            /\ UNCHANGED <<agent_commands, enqueued, next_command>>
       ELSE /\ next_command < MaxCommands
            /\ next_command' = next_command + 1
            /\ LET c == [id |-> next_command', command |-> "run_test_case"]
               IN  /\ agent_commands' =
                         AppendCommand(agent_commands, agent_id, c)
                   /\ enqueued' =
                         IF agent_id \in DOMAIN agents
                         THEN [enqueued EXCEPT ![agent_id] = Append(@, c)]
                         ELSE enqueued
                   /\ route_result' =
                         RouteResult("run_testcase", agent_id, "ok")
    /\ UNCHANGED <<runVars, clientVars, agents, command_queues,
                   agent_connections, detached, getters, answered, timed_out,
                   next_agent, now, dpc, dcmd, dagent, dresult, dstatus,
                   polled>>

\* get_agent_commands, router.py:91-108: the poll of agent_id
OnPoll(agent_id) ==
    /\ agent_id \in PresentableIds
    /\ IF agent_id \notin DOMAIN agents
       THEN /\ route_result' =
                  RouteResult("poll", agent_id, "not_found")
            /\ UNCHANGED <<agents, agent_commands, polled>>
       ELSE /\ agents' = update_agent_status(agents, agent_id,
                                             agents[agent_id].status, now)
            /\ IF Backlog(agent_id) # <<>>
               THEN /\ agent_commands' =
                          [agent_commands EXCEPT ![agent_id] = Tail(@)]
                    /\ polled' = [polled EXCEPT ![agent_id] =
                                     Append(@, Head(agent_commands[agent_id]))]
                    /\ route_result' =
                          RouteResult("poll", agent_id, "command")
               ELSE /\ route_result' =
                          RouteResult("poll", agent_id, "empty")
                    /\ UNCHANGED <<agent_commands, polled>>
    /\ UNCHANGED <<runVars, command_queues, agent_connections,
                   detached, getters, answered, timed_out, next_agent,
                   next_command, now, dpc, dcmd, dagent, dresult, dstatus,
                   enqueued>>

\* The poll route, called by an agent other than the client modelled
RoutePoll(agent_id) == OnPoll(agent_id) /\ UNCHANGED clientVars

\* get_available_agents, manager.py:64-69: the ids of the agents listed
get_available_agents(ag) == {a \in DOMAIN ag : ag[a].status = "online"}

\* A segment of a request path: a word, or an agent id
Word(w) == [word |-> w, id |-> 0]

IdSegment(a) == [word |-> "", id |-> a]

\* A path parameter of a route, {agent_id} or {case_id}: it matches any one
\* segment
Param == Word("{}")

Route(method, pattern, handler) ==
    [method |-> method, pattern |-> pattern, handler |-> handler]

\* The routes of router.py in the order they are declared, router.py:22-153
RouteTable ==
    <<Route("POST", <<Word("register")>>, "register_agent"),
      Route("POST", <<Param, Word("unregister")>>, "unregister_agent"),
      Route("GET", <<>>, "list_agents"),
      Route("GET", <<Param>>, "get_agent"),
      Route("POST", <<Param, Word("command")>>, "send_command_to_agent"),
      Route("GET", <<Param, Word("commands")>>, "get_agent_commands"),
      Route("POST", <<Param, Word("run"), Word("testcase"), Param>>,
            "run_test_case_on_agent"),
      Route("GET", <<Word("available")>>, "list_available_agents")>>

Matches(route, method, path) ==
    /\ route.method = method
    /\ Len(route.pattern) = Len(path)
    /\ \A i \in 1..Len(path) :
          route.pattern[i] = Param \/ route.pattern[i] = path[i]

NoHandler == "none"

\* The router hands a request to the first route, in the order of
\* declaration, whose method and path pattern match
Dispatch(table, method, path) ==
    LET ms == {n \in 1..Len(table) : Matches(table[n], method, path)}
    IN  IF ms = {} THEN NoHandler
        ELSE table[CHOOSE n \in ms : \A m \in ms : n <= m].handler

\* list_available_agents called as a function, router.py:153-158
ListAvailableAgents ==
    /\ route_result' = [route |-> "list_available_agents",
                        registered |-> FALSE, kind |-> "ok",
                        listed |-> get_available_agents(agents)]
    /\ UNCHANGED <<runVars, agentVars, clientVars, agent_commands, enqueued,
                   polled>>

\* GET /api/agents/<segment>, router.py:62-70 and :153-158: the request is
\* answered by the handler the route table gives it
HttpGet(segment) ==
    /\ LET handler == Dispatch(RouteTable, "GET", <<segment>>)
       IN  route_result' =
              CASE handler = "get_agent" ->
                       [route |-> handler,
                        registered |-> segment.id \in DOMAIN agents,
                        kind |-> IF segment.id \in DOMAIN agents
                                 THEN "ok" ELSE "not_found",
                        listed |-> {segment.id} \cap DOMAIN agents]
                [] handler = "list_available_agents" ->
                       [route |-> handler, registered |-> FALSE,
                        kind |-> "ok",
                        listed |-> get_available_agents(agents)]
                [] OTHER ->
                       [route |-> handler, registered |-> FALSE,
                        kind |-> "not_found", listed |-> {}]
    /\ UNCHANGED <<runVars, agentVars, clientVars, agent_commands, enqueued,
                   polled>>

\* The agents last seen at the cutoff time or before it
Inactive_Inclusive(ag, t, threshold) ==
    {a \in DOMAIN ag : ag[a].last_seen <= t - threshold}

\* manager.py:123-127: the agents a sweep with this threshold finds inactive
Inactive(ag, t, threshold) ==
    {a \in DOMAIN ag : ag[a].last_seen < t - threshold}

\* cleanup_inactive_agents, manager.py:121-131
Sweep(threshold) ==
    /\ LET inactive_agents == Inactive(agents, now, threshold)
       IN  /\ agents' = Without(agents, inactive_agents)
           /\ command_queues' = Without(command_queues, inactive_agents)
           /\ agent_connections' = Without(agent_connections, inactive_agents)
           /\ detached' = Detach(inactive_agents)
    /\ route_result' = [route |-> "sweep", registered |-> FALSE,
                        kind |-> "ok", threshold |-> threshold]
    /\ UNCHANGED <<runVars, clientVars, getters, answered, timed_out,
                   next_agent, next_command, now, dpc, dcmd, dagent, dresult,
                   dstatus, agent_commands, enqueued, polled>>

\* datetime.now() advances
Tick ==
    /\ now < MaxTime
    /\ now' = now + 1
    /\ UNCHANGED <<runVars, routerVars, clientVars, agents, command_queues,
                   agent_connections, detached, getters, answered, timed_out,
                   next_agent, next_command, dpc, dcmd, dagent, dresult,
                   dstatus>>

(***************************************************************************)
(* agent/client.py: ClientAgent                                            *)
(***************************************************************************)
\* ClientAgent.__init__, client.py:34-41
ClientInit ==
    /\ client_id = 0
    /\ client_running = FALSE
    /\ client_tasks = {}
    /\ client_buffer = <<>>
    /\ client_executed = <<>>
    /\ client_heartbeat = -1
    /\ client_executing = <<>>

\* The coroutines start() schedules, client.py:286-289
StartedTasks == {"_heartbeat_task", "_command_processor_task"}

\* The commands the routes carry to the client
ClientCommands == AgentCommands

\* What a handler of the client invoked to carry a command out
NoRun == "nothing"

\* What happens inside a handler: the payload does not parse
\* (TestCaseExecutionRequest(**payload) raises), the work itself raises,
\* or nothing goes wrong
HandlerOutcomes == {"ok", "bad_payload", "raise"}

\* A try body that ran to its end or raised an Exception
Returned(success, ran) ==
    [success |-> success, error |-> ~success, ran |-> ran, raised |-> FALSE]

Raised(ran) ==
    [success |-> FALSE, error |-> FALSE, ran |-> ran, raised |-> TRUE]

\* The handler lets the exception go to its caller
except_Exception_Reraise(r) == r

\* except Exception as e, client.py:199-205 and 222-228: the exception is
\* logged and a response with success False and error str(e) is returned
except_Exception(r) ==
    IF r.raised
    THEN [success |-> FALSE, error |-> TRUE, ran |-> r.ran, raised |-> FALSE]
    ELSE r

\* _run_test_case, client.py:207-228: the payload is parsed, run_test_case
\* is awaited, then success is answered; all of it inside try
_run_test_case(outcome) ==
    except_Exception(
        CASE outcome = "bad_payload" -> Raised(NoRun)
          [] outcome = "raise"       -> Raised("run_test_case")
          [] OTHER                   -> Returned(TRUE, "run_test_case"))

\* _run_module, client.py:230-250: the payload is parsed and success is
\* answered, inside try
_run_module(outcome) ==
    except_Exception(
        IF outcome = "bad_payload" THEN Raised(NoRun)
                                   ELSE Returned(TRUE, NoRun))

\* _run_project, client.py:252-272: the payload is parsed and success is
\* answered, inside try
_run_project(outcome) ==
    except_Exception(
        IF outcome = "bad_payload" THEN Raised(NoRun)
                                   ELSE Returned(TRUE, NoRun))

\* execute_command, client.py:169-205: the response and what was run; the
\* branches are inside try, the unknown command is answered with an error
execute_command(command, outcome) ==
    except_Exception(
        CASE command = "run_test_case" -> _run_test_case(outcome)
          [] command = "run_module"    -> _run_module(outcome)
          [] command = "run_project"   -> _run_project(outcome)
          [] command = "ping"          -> Returned(TRUE, NoRun)
          [] command = "shutdown"      -> Returned(TRUE, NoRun)
          [] OTHER                     -> Returned(FALSE, NoRun))

\* start, client.py:274-289, up to the gather: the client registers; when
\* that fails start returns, otherwise running is set and the two tasks of
\* start are scheduled
ClientStart ==
    /\ client_id = 0
    /\ ~client_running
    /\ \/ /\ OnRegister
          /\ client_id' = next_agent'
          /\ client_running' = TRUE
          /\ client_tasks' = StartedTasks
          /\ UNCHANGED <<client_buffer, client_executed, client_heartbeat,
                         client_executing>>
       \/ /\ route_result' = [route |-> "register", registered |-> FALSE,
                              kind |-> "error"]
          /\ UNCHANGED <<runVars, agentVars, clientVars, agent_commands,
                         enqueued, polled>>

\* Mutant of Heartbeat: the ping is posted for an id the manager does not
\* know
Heartbeat_UnknownId ==
    /\ "_heartbeat_task" \in client_tasks
    /\ client_running
    /\ OnCommand(0, "ping")
    /\ client_heartbeat' = now
    /\ UNCHANGED <<client_id, client_running, client_tasks, client_buffer,
                   client_executed, client_executing>>

\* _heartbeat_task and send_heartbeat, client.py:99-121 and :306-310: a PING
\* command is posted to the send-command route for the client's own id
Heartbeat ==
    /\ "_heartbeat_task" \in client_tasks
    /\ client_running
    /\ OnCommand(client_id, "ping")
    /\ client_heartbeat' = now
    /\ UNCHANGED <<client_id, client_running, client_tasks, client_buffer,
                   client_executed, client_executing>>

\* _command_processor_task, client.py:312-321: the task sleeps and does
\* nothing else
CommandProcessorTask ==
    /\ "_command_processor_task" \in client_tasks
    /\ client_running
    /\ UNCHANGED vars

\* The coroutines of the client that start() does not schedule; they run
\* only when the program embedding the client awaits them
EmbeddedTasks == {"listen_for_commands", "process_commands"}

\* The embedding program awaits one of the coroutines start() leaves out.
\* Its loop runs while self.running (client.py:131 and :159).
Embed(task) ==
    /\ client_running
    /\ task \notin client_tasks
    /\ client_tasks' = client_tasks \cup {task}
    /\ UNCHANGED <<runVars, agentVars, routerVars, client_id, client_running,
                   client_buffer, client_executed,
                   client_heartbeat, client_executing>>

\* listen_for_commands, client.py:123-155, one turn of its loop: the poll
\* route is called and a command it returns is put in the local buffer
ClientPoll ==
    /\ "listen_for_commands" \in client_tasks
    /\ client_running
    /\ OnPoll(client_id)
    /\ client_buffer' =
          IF client_id \in DOMAIN agents /\ Backlog(client_id) # <<>>
          THEN Append(client_buffer, Head(Backlog(client_id)))
          ELSE client_buffer
    /\ UNCHANGED <<client_id, client_running, client_tasks, client_executed,
                   client_heartbeat, client_executing>>

\* A client on which SHUTDOWN leaves self.running as it was
RunningAfter_Ignored(command, running) == running

\* execute_command, client.py:186-187: SHUTDOWN clears self.running
RunningAfter(command, running) ==
    IF command = "shutdown" THEN FALSE ELSE running

\* process_commands, client.py:157-167, one turn of its loop with a command
\* in the buffer: the command is executed; the response execute_command
\* returns is not used
ClientProcess ==
    /\ "process_commands" \in client_tasks
    /\ client_running
    /\ client_buffer # <<>>
    /\ \E outcome \in HandlerOutcomes :
          LET command == Head(client_buffer)
              response == execute_command(command.command, outcome)
          IN  client_executed' =
                  Append(client_executed,
                         [id |-> command.id, command |-> command.command,
                          outcome |-> outcome,
                          success |-> response.success, ran |-> response.ran,
                          error |-> response.error,
                          raised |-> response.raised])
    /\ client_buffer' = Tail(client_buffer)
    /\ client_running' = RunningAfter(Head(client_buffer).command,
                                      client_running)
    /\ UNCHANGED <<runVars, agentVars, routerVars, client_id, client_tasks,
                   client_heartbeat, client_executing>>

\* Mutant of MayGet: execute_command is started and not awaited
MayGet_NotAwaited(executing) == TRUE

\* process_commands, client.py:160-161: the loop awaits execute_command
\* before it gets the next command from the buffer
MayGet(executing) == executing = <<>>

\* process_commands, client.py:160-161, up to the first suspension of
\* execute_command: the command at the head of the buffer is taken and its
\* execution begins.  fetched is history: how many commands the polls had
\* put in the buffer by then.
ClientBegin ==
    /\ "process_commands" \in client_tasks
    /\ client_running
    /\ client_buffer # <<>>
    /\ MayGet(client_executing)
    /\ client_executing' =
          Append(client_executing,
                 [command |-> Head(client_buffer),
                  fetched |-> Len(polled[client_id])])
    /\ client_buffer' = Tail(client_buffer)
    /\ UNCHANGED <<runVars, agentVars, routerVars, client_id, client_running,
                   client_tasks, client_executed, client_heartbeat>>

\* execute_command, client.py:169-205, from a suspension to its return
ClientEnd ==
    /\ "process_commands" \in client_tasks
    /\ client_executing # <<>>
    /\ \E n \in 1..Len(client_executing), outcome \in HandlerOutcomes :
          LET command == client_executing[n].command
              response == execute_command(command.command, outcome)
          IN  /\ client_executed' =
                    Append(client_executed,
                           [id |-> command.id, command |-> command.command,
                            outcome |-> outcome,
                            success |-> response.success,
                            ran |-> response.ran,
                            error |-> response.error,
                            raised |-> response.raised])
              /\ client_executing' =
                    SubSeq(client_executing, 1, n - 1)
                        \o SubSeq(client_executing, n + 1,
                                  Len(client_executing))
              /\ client_running' = RunningAfter(command.command,
                                                client_running)
    /\ UNCHANGED <<runVars, agentVars, routerVars, client_id, client_tasks,
                   client_buffer, client_heartbeat>>

\* start and stop, client.py:291-304: the gather ends (the tasks have seen
\* running false, or the program is interrupted) and the client unregisters
ClientStop ==
    /\ StartedTasks \subseteq client_tasks
    /\ OnUnregister(client_id)
    /\ client_running' = FALSE
    /\ client_tasks' = {}
    /\ UNCHANGED <<client_id, client_buffer, client_executed,
                   client_heartbeat, client_executing>>

\* No run in progress
RunIdle ==
    /\ pc = "idle"
    /\ db_case = [found |-> FALSE, steps |-> <<>>]
    /\ db_project = [found |-> FALSE, browser |-> "chromium"]
    /\ step_index = 0
    /\ all_steps_succeeded = TRUE
    /\ run_log_entries = <<>>
    /\ test_status = "Failed"
    /\ report_path = "None"
    /\ session = "none"
    /\ tracing = "none"
    /\ exc_pending = FALSE
    /\ calls = <<>>
    /\ results = <<>>
    /\ saved_runs = <<>>
    /\ save_failures = 0

\* ---- the stored test cases, app/crud.py ----

\* The ids the table test_cases hands out
CaseIds == {1, 2}

\* step_order: int = Field(..., gt=0), models.py:25, :52 and :65
StepOrders == {1, 2}

\* The lists of steps of a request, models.py:50-62 and :64-73
SubmittedSteps ==
    UNION {[1..n -> [step_order : StepOrders]] : n \in 0..MaxCaseSteps}

NoCase == [op |-> "none", case_id |-> 0, steps |-> <<>>, raised |-> FALSE]

CasesIdle ==
    /\ test_steps = <<>>
    /\ case_returned = NoCase

\* What the driver does with the next statement of a connection while rows
\* of the last SELECT are unread: it refuses it with InternalError, a
\* mysql.connector Error, or it discards the rows.  database.py:10-17 opens
\* the connection and :40 the cursor without saying which.
UnreadRows == {"InternalError", "discarded"}

RECURSIVE InsertByStepOrder(_, _)
InsertByStepOrder(sorted, row) ==
    IF sorted = <<>> THEN <<row>>
    ELSE IF row.step_order < Head(sorted).step_order THEN <<row>> \o sorted
    ELSE <<Head(sorted)>> \o InsertByStepOrder(Tail(sorted), row)

\* ORDER BY step_order ASC, crud.py:278
RECURSIVE OrderByStepOrder(_)
OrderByStepOrder(rows) ==
    IF rows = <<>> THEN <<>>
    ELSE InsertByStepOrder(OrderByStepOrder(SubSeq(rows, 1, Len(rows) - 1)),
                           rows[Len(rows)])

\* get_steps_for_case, crud.py:276-279, on its own connection: the committed
\* rows of the case
get_steps_for_case(table, case_id) ==
    IF case_id \in DOMAIN table THEN OrderByStepOrder(table[case_id])
    ELSE <<>>

\* create_test_step, crud.py:257-274, called for each step of a list with
\* the cursor of the caller: the SELECT after the INSERT of step j finds
\* two rows or more when an earlier step has the same step_order, and
\* fetchone reads one of them
LeavesUnreadRows(steps) ==
    \E i, j \in 1..Len(steps) :
        i < j /\ steps[i].step_order = steps[j].step_order

\* get_db_cursor(commit=True) around the statements of create_test_case and
\* update_test_case, database.py:36-51: an Error of a statement is rolled
\* back and raised again, an exception of conn.commit() leaves the
\* connection to be closed uncommitted
Fails(steps, fails_at, unread) ==
    \/ fails_at # 0
    \/ unread = "InternalError" /\ LeavesUnreadRows(steps)

\* update_test_case, crud.py:231-249, for a case that exists: the rows the
\* table holds afterwards and what the call returns.  get_test_case at
\* :249 runs inside the with block, before the commit at its exit, on a
\* connection of its own.
update_test_case(table, case_id, steps, fails_at, unread) ==
    IF Fails(steps, fails_at, unread)
    THEN [table |-> table,
          returned |-> [op |-> "update", case_id |-> case_id,
                        steps |-> <<>>, raised |-> TRUE]]
    ELSE [table |-> [table EXCEPT ![case_id] = steps],
          returned |-> [op |-> "update", case_id |-> case_id,
                        steps |-> get_steps_for_case(table, case_id),
                        raised |-> FALSE]]

\* create_test_case, crud.py:131-163: the new case gets the next id, the
\* steps returned are the rows read back by create_test_step
create_test_case(table, steps, fails_at, unread) ==
    LET case_id == Cardinality(DOMAIN table) + 1
    IN  IF Fails(steps, fails_at, unread)
        THEN [table |-> table,
              returned |-> [op |-> "create", case_id |-> case_id,
                            steps |-> <<>>, raised |-> TRUE]]
        ELSE [table |-> Set(table, case_id, steps),
              returned |-> [op |-> "create", case_id |-> case_id,
                            steps |-> steps, raised |-> FALSE]]

\* POST /api/testcases/, testcase_router.py:27-40; fails_at is the INSERT
\* of a step that raises an Error, 0 for none
CreateTestCase(steps, fails_at, unread) ==
    /\ Cardinality(DOMAIN test_steps) < Cardinality(CaseIds)
    /\ fails_at <= Len(steps)
    /\ LET r == create_test_case(test_steps, steps, fails_at, unread)
       IN  /\ test_steps' = r.table
           /\ case_returned' = r.returned
    /\ UNCHANGED <<coreVars, engineVars, saveVars, artifactVars, agentVars,
                   routerVars, clientVars>>

\* PUT /api/testcases/{case_id}, testcase_router.py:66-78
UpdateTestCase(case_id, steps, fails_at, unread) ==
    /\ case_id \in DOMAIN test_steps
    /\ fails_at <= Len(steps)
    /\ LET r == update_test_case(test_steps, case_id, steps, fails_at,
                                 unread)
       IN  /\ test_steps' = r.table
           /\ case_returned' = r.returned
    /\ UNCHANGED <<coreVars, engineVars, saveVars, artifactVars, agentVars,
                   routerVars, clientVars>>

\* get_test_case, crud.py:166-172, as run_test_case calls it at
\* runner.py:39: the steps in the order the loop of runner.py:72-74 takes
\* them
GetCaseSteps(case_id) ==
    /\ case_id \in DOMAIN test_steps
    /\ case_returned' = [op |-> "get", case_id |-> case_id,
                         steps |-> get_steps_for_case(test_steps, case_id),
                         raised |-> FALSE]
    /\ UNCHANGED <<coreVars, engineVars, saveVars, artifactVars, agentVars,
                   routerVars, clientVars, test_steps>>

CasesNext ==
    \/ \E steps \in SubmittedSteps, fails_at \in 0..MaxCaseSteps,
          unread \in UnreadRows :
          CreateTestCase(steps, fails_at, unread)
    \/ \E case_id \in CaseIds, steps \in SubmittedSteps,
          fails_at \in 0..MaxCaseSteps, unread \in UnreadRows :
          UpdateTestCase(case_id, steps, fails_at, unread)
    \/ \E case_id \in CaseIds : GetCaseSteps(case_id)

(* The state when run_test_case is entered; the agent manager is untouched. *)
InitRun ==
    /\ RunInit /\ EngineIdle /\ SaveIdle /\ ArtifactsIdle /\ CasesIdle
    /\ AgentInit /\ RouterInit /\ ClientInit

SpecRun == InitRun /\ [][RunNext]_vars

(* The state of a fresh AgentManager; no run is in progress. *)
InitDispatch ==
    /\ RunIdle /\ EngineIdle /\ SaveIdle /\ ArtifactsIdle /\ CasesIdle
    /\ AgentInit /\ RouterInit /\ ClientInit

SpecDispatch == InitDispatch /\ [][DispatchNext]_vars

\* The coordinator: the routes and one caller of send_command
RouterNext ==
    \/ RouteRegister
    \/ \E a \in 0..MaxAgents : RouteUnregister(a)
    \/ \E a \in 0..MaxAgents : RouteSendCommand(a, "ping")
    \/ \E a \in 0..MaxAgents, l \in Lookups : RouteRunTestCase(a, l)
    \/ \E a \in 0..MaxAgents : RoutePoll(a)
    \/ \E a \in 0..MaxAgents : SendCommand("d1", a, "run_test_case")

\* The registry over time: registration, polls, a dispatch, the clock and
\* the maintenance sweep
SweepNext ==
    \/ RouteRegister
    \/ \E a \in 0..MaxAgents : RouteUnregister(a)
    \/ \E a \in 0..MaxAgents : RoutePoll(a)
    \/ \E a \in AgentIds : SendCommand("d1", a, "run_test_case")
    \/ \E threshold \in Thresholds : Sweep(threshold)
    \/ Tick

(* The state of a fresh coordinator: no agent, no backlog, no run. *)
InitRouter ==
    /\ RunIdle /\ EngineIdle /\ SaveIdle /\ ArtifactsIdle /\ CasesIdle
    /\ AgentInit /\ RouterInit /\ ClientInit

SpecRouter == InitRouter /\ [][RouterNext]_vars

\* The coordinator with agents that keep polling: a registered agent asks
\* for work again and again (client.py:131-152)
FairRouter == SpecRouter /\ \A a \in AgentIds : WF_vars(RoutePoll(a))

SpecSweep == InitRouter /\ [][SweepNext]_vars

\* One client and the coordinator it talks to: the client's coroutines, the
\* command routes called for any id, and one caller of send_command
ClientNext ==
    \/ ClientStart
    \/ Heartbeat
    \/ CommandProcessorTask
    \/ \E task \in EmbeddedTasks : Embed(task)
    \/ ClientPoll
    \/ ClientProcess
    \/ ClientStop
    \/ \E a \in 0..MaxAgents, c \in ClientCommands : RouteSendCommand(a, c)
    \/ \E a \in 0..MaxAgents : RouteRunTestCase(a, "found")
    \/ \E a \in 0..MaxAgents : SendCommand("d1", a, "run_test_case")
    \/ CommandTimeout("d1")

SpecClient == InitRouter /\ [][ClientNext]_vars

\* The client with its scheduled coroutines running for ever: each task
\* that is scheduled keeps taking its turns
FairClient ==
    /\ SpecClient
    /\ WF_vars(Heartbeat)
    /\ WF_vars(ClientPoll)
    /\ WF_vars(ClientProcess)

\* KeywordEngine.execute_step on its own, given any step
InitEngine ==
    /\ RunIdle /\ EngineInit /\ SaveIdle /\ ArtifactsIdle /\ CasesIdle
    /\ AgentInit /\ RouterInit /\ ClientInit

SpecEngine == InitEngine /\ [][EngineExecuteStep]_vars

\* Two processes that save the results of their runs at the same time
InitSave ==
    /\ RunIdle /\ EngineIdle /\ SaveInit /\ ArtifactsIdle /\ CasesIdle
    /\ AgentInit /\ RouterInit /\ ClientInit

SpecSave == InitSave /\ [][SaveNext]_vars

\* Two processes that run a case at the same time
InitArtifacts ==
    /\ RunIdle /\ EngineIdle /\ SaveIdle /\ ArtifactsInit /\ CasesIdle
    /\ AgentInit /\ RouterInit /\ ClientInit

SpecArtifacts == InitArtifacts /\ [][ArtifactsNext]_vars

\* The routes and one caller of send_command side by side, for several
\* agents.  With one caller a woken caller always finds its response, so
\* SuspendAgain has no part in it.
IsolationNext ==
    \/ RouteRegister
    \/ \E a \in AgentIds : RouteUnregister(a)
    \/ \E a \in AgentIds : RouteSendCommand(a, "ping")
    \/ \E a \in AgentIds : RoutePoll(a)
    \/ \E a \in AgentIds : SendCommand("d1", a, "ping")
    \/ ReceiveResponse("d1")
    \/ CommandTimeout("d1")
    \/ \E a \in AgentIds, c \in 1..MaxCommands : HandleAgentResponse(a, c)

SpecIsolation == InitRouter /\ [][IsolationNext]_vars

\* The client with its two embedded coroutines, the execution of a command
\* taking time: polls and heartbeats go on while it lasts
PipelineNext ==
    \/ ClientStart
    \/ Heartbeat
    \/ CommandProcessorTask
    \/ \E task \in EmbeddedTasks : Embed(task)
    \/ ClientPoll
    \/ ClientBegin
    \/ ClientEnd
    \/ ClientStop
    \/ \E a \in AgentIds, c \in ClientCommands : RouteSendCommand(a, c)

SpecPipeline == InitRouter /\ [][PipelineNext]_vars

\* The registry with a clock, the polls, and update_agent_status called
\* with any status, for an id that is never handed out and for the first
\* agent; the other agents are there to be left alone
StatusNext ==
    \/ RouteRegister
    \/ \E a \in AgentIds : RouteSendCommand(a, "ping")
    \/ RoutePoll(1)
    \/ \E a \in {0, 1}, status \in AgentStatuses : UpdateStatus(a, status)
    \/ Tick

SpecStatus == InitRouter /\ [][StatusNext]_vars

\* Agents of every status, the GET routes of one path segment, and
\* list_available_agents called directly
ListingNext ==
    \/ RouteRegister
    \/ \E a \in AgentIds : RouteUnregister(a)
    \/ \E a \in AgentIds, status \in AgentStatuses : UpdateStatus(a, status)
    \/ \E a \in 0..MaxAgents : HttpGet(IdSegment(a))
    \/ HttpGet(Word("available"))
    \/ ListAvailableAgents

SpecListing == InitRouter /\ [][ListingNext]_vars

\* _run_test_case, client.py:207-228, for a payload that
\* TestCaseExecutionRequest accepts: run_test_case has been awaited, the
\* response is made of how it ended.  status is history: the status the run
\* recorded.
RunCaseRespond ==
    /\ pc \in {"done", "raised"}
    /\ client_executed = <<>>
    /\ LET outcome == IF pc = "raised" THEN "raise" ELSE "ok"
           response == _run_test_case(outcome)
       IN  client_executed' =
              <<[id |-> 1, command |-> "run_test_case", outcome |-> outcome,
                 success |-> response.success, ran |-> response.ran,
                 error |-> response.error, raised |-> response.raised,
                 status |-> test_status]>>
    /\ UNCHANGED <<runVars, agentVars, routerVars, client_id, client_running,
                   client_tasks, client_buffer, client_heartbeat,
                   client_executing>>

\* _run_test_case, client.py:207-228, for a payload that
\* TestCaseExecutionRequest rejects: run_test_case is not called
RunCaseMalformed ==
    /\ pc = "get_test_case"
    /\ client_executed = <<>>
    /\ LET response == _run_test_case("bad_payload")
       IN  client_executed' =
              <<[id |-> 1, command |-> "run_test_case",
                 outcome |-> "bad_payload",
                 success |-> response.success, ran |-> response.ran,
                 error |-> response.error, raised |-> response.raised,
                 status |-> "None"]>>
    /\ pc' = "idle"
    /\ UNCHANGED <<db_case, db_project, step_index, all_steps_succeeded,
                   run_log_entries, test_status, report_path, session,
                   tracing, exc_pending, calls, results, saved_runs,
                   save_failures, engineVars, saveVars, artifactVars,
                   caseVars, agentVars, routerVars, client_id,
                   client_running, client_tasks, client_buffer,
                   client_heartbeat, client_executing>>

\* A run-case command executed by the client: the payload is parsed, the
\* case is run, the response is made
RunCaseNext ==
    \/ RunCaseMalformed
    \/ RunNext
    \/ RunCaseRespond

SpecRunCase == InitRun /\ [][RunCaseNext]_vars

\* Agents that are removed, by unregister_agent or by the sweep, while a
\* caller of send_command waits for the first of them
RemovalNext ==
    \/ RegisterAgent
    \/ \E a \in AgentIds : UnregisterAgent(a)
    \/ \E threshold \in Thresholds : Sweep(threshold)
    \/ Tick
    \/ \E c \in DispatchedCommands : SendCommand("d1", 1, c)
    \/ ReceiveResponse("d1")
    \/ CommandTimeout("d1")
    \/ \E c \in 1..MaxCommands : HandleAgentResponse(1, c)

SpecRemoval == InitRouter /\ [][RemovalNext]_vars

\* The test cases of the database, created, updated and read
SpecCases == InitRouter /\ [][CasesNext]_vars

\* The client with its heartbeats and polls, commands sent to it and the
\* clock
PingsNext ==
    \/ ClientStart
    \/ Heartbeat
    \/ CommandProcessorTask
    \/ \E task \in EmbeddedTasks : Embed(task)
    \/ ClientPoll
    \/ ClientProcess
    \/ ClientStop
    \/ \E c \in ClientCommands : RouteSendCommand(client_id, c)
    \/ Tick

SpecPings == InitRouter /\ [][PingsNext]_vars

\* The client next to the clock and the maintenance sweep of the manager
HeartbeatNext ==
    \/ ClientStart
    \/ Heartbeat
    \/ CommandProcessorTask
    \/ \E task \in EmbeddedTasks : Embed(task)
    \/ ClientPoll
    \/ ClientProcess
    \/ ClientStop
    \/ \E threshold \in Thresholds : Sweep(threshold)
    \/ Tick

SpecHeartbeat == InitRouter /\ [][HeartbeatNext]_vars

\* The client whose start() is not left hanging: once running is false the
\* two tasks of start leave their loops at the end of their sleep, the
\* gather returns and stop() is awaited (client.py:291-304)
FairShutdown ==
    /\ SpecClient
    /\ WF_vars(ClientProcess)
    /\ WF_vars(~client_running /\ ClientStop)

-----------------------------------------------------------------------------
(***************************************************************************)
(* Properties of run_test_case and execute_step, checked under SpecRun.    *)
(***************************************************************************)
Called(c) == \E n \in 1..Len(calls) : calls[n] = c

CountCalls(c) == Cardinality({n \in 1..Len(calls) : calls[n] = c})

\* The top-level handler of run_test_case ran
Caught == Called("except")

\* The log entries that record a step (the critical entry has no step id)
StepEntries(log) == SelectSeq(log, LAMBDA e : e.step_id # NoStepId)

\* execute_step returned a result for its k-th invocation, and it is a success
Succeeded(k) == ~results[k].result.raised /\ results[k].result.success

\* The k-th invocation is the first one whose result is a failure
FirstFailure(k) ==
    /\ k \in 1..Len(results)
    /\ ~results[k].result.raised
    /\ ~results[k].result.success
    /\ \A j \in 1..(k - 1) : Succeeded(j)

\* C1: when the first step whose execute_step result is a failure is the k-th,
\* execute_step is invoked for steps 1..k only, and the run log holds exactly
\* k step entries, for steps 1..k in order: INFO for 1..k-1, ERROR for k.
\* The rows saved for the run hold the same step entries.
C1_FailFast ==
    \A k \in 1..Len(results) :
        FirstFailure(k) =>
            LET entries == StepEntries(run_log_entries)
            IN  /\ Len(results) = k
                /\ \A j \in 1..k : results[j].id = j
                /\ Len(entries) = k
                /\ \A j \in 1..k :
                      /\ entries[j].step_id = j
                      /\ entries[j].level = IF j < k THEN "INFO" ELSE "ERROR"
                /\ \A n \in 1..Len(saved_runs) :
                      StepEntries(saved_runs[n].logs) = entries

\* A case of three steps whose second step failed, run to its end and saved
C1_Witness ==
    /\ pc = "done"
    /\ Len(db_case.steps) = 3
    /\ FirstFailure(2)
    /\ Len(saved_runs) = 1

NoStepFailed == \A k \in 1..Len(results) : Succeeded(k)

NoFailureResult ==
    \A k \in 1..Len(results) :
        results[k].result.raised \/ results[k].result.success

\* C2 as stated: a finished run is Passed if and only if no attempted step
\* returned a failure, and a run of a case with zero steps is Passed with
\* zero log entries.
C2_PassedIffNoStepFailed ==
    pc = "done" =>
        /\ test_status = "Passed" <=> NoFailureResult
        /\ (db_case.found /\ db_case.steps = <<>>) =>
              (test_status = "Passed" /\ run_log_entries = <<>>)

\* C2 as amended: a finished run is Passed if and only if every attempted
\* step returned success and no exception reached the top-level handler; the
\* status saved is that status; a zero-step run in which no exception was
\* caught is Passed with zero log entries.
C2_PassedIffCleanRun ==
    pc = "done" =>
        /\ test_status = "Passed" <=> (NoStepFailed /\ ~Caught)
        /\ \A n \in 1..Len(saved_runs) : saved_runs[n].status = test_status
        /\ (db_case.found /\ db_case.steps = <<>> /\ ~Caught) =>
              (test_status = "Passed" /\ run_log_entries = <<>>)

\* A run of three steps that all succeeded, saved as Passed
C2_Witness ==
    /\ pc = "done"
    /\ Len(results) = 3
    /\ NoStepFailed
    /\ ~Caught
    /\ Len(saved_runs) = 1
    /\ saved_runs[1].status = "Passed"

\* C3: when an exception reached the top level of run_test_case, the run
\* ends Failed, its log is the step entries captured so far followed by
\* exactly one CRITICAL entry, and save_run_results is called, once, last.
C3_ExceptionRecorded ==
    (pc = "done" /\ Caught) =>
        LET n == Len(run_log_entries)
        IN  /\ test_status = "Failed"
            /\ n >= 1
            /\ run_log_entries[n].level = "CRITICAL"
            /\ run_log_entries[n].step_id = NoStepId
            /\ \A j \in 1..(n - 1) :
                  /\ run_log_entries[j].step_id = j
                  /\ run_log_entries[j].level \in {"INFO", "ERROR"}
                  /\ ~results[j].result.raised
            /\ n - 1 = Cardinality({k \in 1..Len(results) :
                                       ~results[k].result.raised})
            /\ CountCalls("save_run_results") = 1
            /\ calls[Len(calls)] = "save_run_results"
            /\ \A m \in 1..Len(saved_runs) :
                  /\ saved_runs[m].status = "Failed"
                  /\ saved_runs[m].logs = run_log_entries

\* Two steps were logged, then an exception reached the top level, and the
\* run was saved
C3_Witness ==
    /\ pc = "done"
    /\ Caught
    /\ Len(run_log_entries) = 3
    /\ Len(saved_runs) = 1

\* C4 as stated: on every path on which the browser was launched, by the
\* time the run is persisted the session was closed (browser.close was
\* called, or the browser was already gone) and a trace that was started was
\* stopped (tracing.stop was called, which writes the trace artifact).
C4_CleanupAlways ==
    (pc \in {"finally", "done"} /\ session # "none") =>
        /\ Called("browser.close") \/ session = "lost"
        /\ tracing # "none" => Called("tracing.stop")

\* C5 as stated: execute_step never raises, and a failure result carries the
\* path of the failure screenshot.
C5_NeverRaises ==
    \A k \in 1..Len(results) :
        /\ ~results[k].result.raised
        /\ ~results[k].result.success =>
              results[k].result.screenshot_path =
                  FailureScreenshot(results[k].id)

\* C6 as stated: for a step whose keyword is outside the vocabulary,
\* execute_step calls no keyword method and returns success = false with a
\* screenshot path, without raising.
C6_UnsupportedRecovered ==
    \A k \in 1..Len(results) :
        db_case.steps[results[k].id].keyword \notin KEYWORDS =>
            /\ results[k].result.handler = NoKeyword
            /\ ~results[k].result.raised
            /\ ~results[k].result.success
            /\ results[k].result.screenshot_path # NoPath

-----------------------------------------------------------------------------
(***************************************************************************)
(* Properties of send_command, checked under SpecDispatch.                 *)
(***************************************************************************)
\* Caller d has returned from a dispatch of an execution-class command to an
\* agent that was still registered when it returned
ReturnedExecution(d, kind) ==
    /\ dpc[d] = "returned"
    /\ dresult[d].kind = kind
    /\ dcmd[d].command \in ExecutionCommands
    /\ dstatus[d] # "unregistered"

\* C7 as stated: when a dispatch of an execution-class command has returned
\* the Timeout failure, the agent's status at that moment is Error.
C7_TimeoutLeavesError ==
    \A d \in Callers : ReturnedExecution(d, "timeout") => dstatus[d] = "error"

\* C8 as stated: while a dispatch of an execution-class command to a
\* registered agent is in flight the agent's status is Busy, and when the
\* dispatch has returned the agent's response the status is Online.
C8_BusyUntilResponse ==
    \A d \in Callers :
        /\ (/\ InFlight(d)
            /\ dcmd[d].command \in ExecutionCommands
            /\ dagent[d] \in DOMAIN agents)
              => agents[dagent[d]].status = "busy"
        /\ ReturnedExecution(d, "response") => dstatus[d] = "online"

\* C9 as stated: at most one command is in flight for an agent at a time,
\* and the agent is Busy as long as an execution-class command dispatched to
\* it is in flight.
C9_SingleFlight ==
    \A a \in AgentIds :
        /\ Cardinality(Waiting(a)) <= 1
        /\ a \in DOMAIN agents =>
              \A d \in Waiting(a) :
                  dcmd[d].command \in ExecutionCommands =>
                      agents[a].status = "busy"

\* C10 as stated: the response an agent produced for a command whose
\* dispatch has timed out is returned by no dispatch.
C10_NoStaleResponse ==
    \A d \in Callers :
        (dpc[d] = "returned" /\ dresult[d].kind = "response") =>
            dresult[d].for \notin timed_out

\* C18: save_run_results is atomic: the run row and one log row for every
\* captured log entry are all stored, or none of them is; a persistence
\* failure is logged, the write is attempted once, and no exception leaves
\* run_test_case because of it.
C18_SaveAtomic ==
    /\ pc # "raised"
    /\ Len(saved_runs) <= 1
    /\ \A m \in 1..Len(saved_runs) :
          saved_runs[m] = [status |-> test_status,
                           report_path |-> report_path,
                           logs |-> run_log_entries]
    /\ CountCalls("save_run_results") <= 1
    /\ pc = "done" =>
          /\ CountCalls("save_run_results") = 1
          /\ Len(saved_runs) + save_failures = 1

\* A run with two log entries has ended and its persistence failed: the
\* failure was logged and nothing is stored
C18_Witness ==
    /\ pc = "done"
    /\ Len(run_log_entries) >= 2
    /\ save_failures = 1
    /\ saved_runs = <<>>

-----------------------------------------------------------------------------
(***************************************************************************)
(* Properties of the routes and of the registry, checked under SpecRouter  *)
(* and SpecSweep.                                                          *)
(***************************************************************************)
\* The routes that dispatch a command to an agent
DispatchRoutes == {"command", "run_testcase"}

\* This step is a call of send_command by caller d
CallsSendCommand(d) == dcmd'[d] # dcmd[d]

\* This step neither creates a backlog for agent_id nor appends to it
NothingEnqueuedFor(agent_id) ==
    /\ agent_id \in DOMAIN agent_commands' =>
          /\ agent_id \in DOMAIN agent_commands
          /\ agent_commands'[agent_id] = agent_commands[agent_id]
    /\ agent_id \in DOMAIN command_queues' =>
          /\ agent_id \in DOMAIN command_queues
          /\ command_queues'[agent_id] = command_queues[agent_id]
    /\ agent_id \in DOMAIN agent_connections' =>
          agent_id \in DOMAIN agent_connections

\* C11: a dispatch entry point (send_command, the send-command route, the
\* run-test-case-on-agent route) called with an agent id that is not
\* registered answers with a failure, never with a success acknowledgment,
\* enqueues nothing and creates no per-agent state for that id.
C11_UnknownAgentRejected ==
    /\ [](route_result.route \in DispatchRoutes /\ ~route_result.registered
             => route_result.kind # "ok")
    /\ [][/\ CallsSendCommand("d1") /\ dagent'["d1"] \notin DOMAIN agents
             => dresult'["d1"].kind = "not_found"
          /\ \A a \in 0..MaxAgents :
                a \notin DOMAIN agents /\ a \notin DOMAIN agents'
                   => NothingEnqueuedFor(a)]_vars

\* This step is a call of the poll route: a route was called, which the
\* callers of send_command and the clock are not, and it was the poll
IsPoll ==
    /\ route_result'.route = "poll"
    /\ dcmd' = dcmd /\ dpc' = dpc /\ now' = now

\* C12: for each registered agent the commands its polls have returned,
\* followed by its backlog, are the commands enqueued for it, in the order
\* they were enqueued (none lost, duplicated or reordered); a poll returns at
\* most one command; and a poll on an empty backlog returns the empty
\* sentinel and leaves the backlog empty.
C12_PollsAreFifo ==
    /\ [](\A a \in DOMAIN agents : polled[a] \o Backlog(a) = enqueued[a])
    /\ [][IsPoll =>
             \A a \in DOMAIN agents :
                /\ Len(polled'[a]) <= Len(polled[a]) + 1
                /\ polled'[a] # polled[a]
                      => /\ polled'[a] =
                               Append(polled[a], Head(agent_commands[a]))
                         /\ route_result'.kind = "command"
                /\ route_result'.registered /\ route_result'.kind = "empty"
                      => polled' = polled /\ agent_commands' = agent_commands
                /\ route_result'.registered /\ polled' = polled
                      => route_result'.kind = "empty"]_vars

\* Two commands were enqueued for an agent, two polls returned them in that
\* order, and a third poll returned the empty sentinel
C12_Witness ==
    \E a \in DOMAIN agents :
        /\ Len(enqueued[a]) = 2
        /\ polled[a] = enqueued[a]
        /\ enqueued[a][1].id < enqueued[a][2].id
        /\ route_result = [route |-> "poll", registered |-> TRUE,
                           kind |-> "empty"]

\* Command c was passed to send_command for agent_id, which is registered
Dispatched(agent_id, c) ==
    /\ agent_id \in DOMAIN agents
    /\ agent_id \in DOMAIN command_queues
    /\ \E n \in 1..Len(command_queues[agent_id]) :
          command_queues[agent_id][n].id = c

\* A poll of agent_id has returned command c
PolledBy(agent_id, c) ==
    \E n \in 1..Len(polled[agent_id]) : polled[agent_id][n].id = c

\* C13: a command passed to send_command for a registered agent is
\* eventually returned by one of the agent's polls, if the agent keeps
\* polling (that is, unless it leaves the registry first).
C13_DispatchReachesPoll ==
    \A a \in AgentIds, c \in 1..MaxCommands :
        Dispatched(a, c) ~> (PolledBy(a, c) \/ a \notin DOMAIN agents)

\* C15: register assigns an id distinct from every id assigned before (also
\* across unregistrations), and immediately after register the agent is in
\* the registry with status Online and with an empty command channel, an
\* empty response channel and an empty pending-command backlog.
C15_RegisterFresh ==
    [][next_agent' # next_agent =>
          \E id \in AgentIds :
             /\ id \notin 1..next_agent
             /\ id \notin DOMAIN agents
             /\ DOMAIN agents' = DOMAIN agents \cup {id}
             /\ agents'[id].status = "online"
             /\ id \in DOMAIN command_queues' /\ command_queues'[id] = <<>>
             /\ id \in DOMAIN agent_connections'
             /\ agent_connections'[id] = <<>>
             /\ id \in DOMAIN agent_commands' => agent_commands'[id] = <<>>
             /\ \A b \in DOMAIN agents : agents'[b] = agents[b]]_vars

\* A second agent has just been registered, after the first one was given
\* commands and unregistered
C15_Witness ==
    /\ next_agent = 2
    /\ DOMAIN agents = {2}
    /\ route_result = [route |-> "register", registered |-> FALSE,
                       kind |-> "ok"]
    /\ agents[2].status = "online"
    /\ agent_commands[2] = <<>>
    /\ next_command > 0

\* This step is a call of a route: the callers of send_command and the
\* clock did not move
IsRouteStep == dcmd' = dcmd /\ dpc' = dpc /\ now' = now

\* C16: after an agent has been removed, by unregister or by the sweep, no
\* per-agent state for its id remains (registry entry, command channel,
\* response channel, pending-command backlog); unregistering an id that is
\* not registered changes no state.
C16_RemovalLeavesNothing ==
    [][/\ \A a \in DOMAIN agents :
             a \notin DOMAIN agents'
                => /\ a \notin DOMAIN command_queues'
                   /\ a \notin DOMAIN agent_connections'
                   /\ a \notin DOMAIN agent_commands'
       /\ (/\ IsRouteStep
           /\ route_result'.route = "unregister"
           /\ ~route_result'.registered)
             => /\ agents' = agents
                /\ command_queues' = command_queues
                /\ agent_connections' = agent_connections
                /\ agent_commands' = agent_commands]_vars

\* This step is a call of cleanup_inactive_agents
IsSweep == IsRouteStep /\ route_result'.route = "sweep"

\* C17: a sweep with threshold T removes exactly the agents whose last-seen
\* is older than T at the moment of the sweep, whatever their status, and
\* leaves every other agent and its channels unchanged; and an agent leaves
\* the registry only by a sweep or by unregister.
C17_SweepExact ==
    [][/\ IsSweep =>
             /\ DOMAIN agents' =
                   {a \in DOMAIN agents :
                       ~(now - agents[a].last_seen > route_result'.threshold)}
             /\ \A a \in DOMAIN agents' :
                   /\ agents'[a] = agents[a]
                   /\ command_queues'[a] = command_queues[a]
                   /\ agent_connections'[a] = agent_connections[a]
             /\ \A a \in DOMAIN agents' \cap DOMAIN agent_commands :
                   a \in DOMAIN agent_commands'
                      /\ agent_commands'[a] = agent_commands[a]
       /\ ~(DOMAIN agents \subseteq DOMAIN agents') =>
             /\ IsRouteStep
             /\ route_result'.route \in {"sweep", "unregister"}]_vars

\* A sweep has just removed a busy agent whose dispatch is still waiting
\* and has kept an agent last seen exactly the threshold ago
C17_Witness ==
    /\ route_result.route = "sweep"
    /\ dpc["d1"] = "suspended"
    /\ dagent["d1"] \notin DOMAIN agents
    /\ dagent["d1"] \in DOMAIN agent_commands
    /\ \E a \in DOMAIN agents :
          now - agents[a].last_seen = route_result.threshold

-----------------------------------------------------------------------------
(***************************************************************************)
(* Properties of the client, checked under SpecClient and FairClient.      *)
(***************************************************************************)
\* The response to command c is on a response channel of the coordinator,
\* or a caller of send_command has received it
ResponseDelivered(c) ==
    \/ c \in answered
    \/ \E a \in DOMAIN agent_connections :
          \E n \in 1..Len(agent_connections[a]) :
             agent_connections[a][n].for = c
    \/ \E d \in Callers :
          dresult[d].kind = "response" /\ dresult[d].for = c

\* C14: the response the client's execute_command computed for a command
\* reaches the coordinator's response channel for that agent, so that the
\* dispatch caller receives it.
C14_ResponseReachesCaller ==
    \A n \in 1..Len(client_executed) :
        ResponseDelivered(client_executed[n].id)

\* The client was started by start(), is running and is registered
Started ==
    /\ client_running
    /\ StartedTasks \subseteq client_tasks
    /\ client_id \in DOMAIN agents

\* Command c is pending for the client on the coordinator
PendingForClient(c) ==
    \E n \in 1..Len(Backlog(client_id)) : Backlog(client_id)[n].id = c

\* The client has executed command c
ExecutedByClient(c) ==
    \E n \in 1..Len(client_executed) : client_executed[n].id = c

\* C19: once the client has been started and registered, every command
\* pending for it on the coordinator is eventually fetched by its polling
\* activity and executed by its execution activity (unless the client stops
\* or leaves the registry first).
C19_PendingEventuallyExecuted ==
    \A c \in 1..MaxCommands :
        (Started /\ PendingForClient(c))
            ~> (ExecutedByClient(c) \/ ~Started)

\* C20: every execution-class command the client executes (run-case,
\* run-module, run-project) answers success only after its test cases have
\* been run through run_test_case.
C20_ExecutionRunsCases ==
    \A n \in 1..Len(client_executed) :
        (client_executed[n].command \in ExecutionCommands
            /\ client_executed[n].success)
        => client_executed[n].ran = "run_test_case"

\* The client has executed a shutdown command
ShutdownExecuted ==
    \E n \in 1..Len(client_executed) : client_executed[n].command = "shutdown"

\* C21: once the client has executed a shutdown command its running flag is
\* false, the shutdown is the last command it executes (whatever is still in
\* its buffer or on the coordinator), and start() eventually returns and
\* unregisters the agent.
C21_ShutdownStops ==
    /\ [](ShutdownExecuted =>
             /\ ~client_running
             /\ client_executed[Len(client_executed)].command = "shutdown")
    /\ ShutdownExecuted
          ~> (client_tasks = {} /\ client_id \notin DOMAIN agents)

\* The client executed a shutdown while another command was in its buffer;
\* start() has returned and the agent is unregistered
C21_Witness ==
    /\ ShutdownExecuted
    /\ client_buffer # <<>>
    /\ client_tasks = {}
    /\ client_id \notin DOMAIN agents

\* ---- execute_command answers, whatever happens inside ----

\* The command at place n of the client's executions went wrong inside its
\* handler: the payload of an execution command did not parse, or the test
\* case run raised
WentWrong(n) ==
    LET e == client_executed[n]
    IN  \/ e.command \in ExecutionCommands /\ e.outcome = "bad_payload"
        \/ e.command = "run_test_case" /\ e.outcome = "raise"

\* C22: execute_command never raises: every execution ends with a response,
\* the response of a command whose payload did not parse or whose run raised
\* has success false and an error detail, and the execution loop goes on:
\* while the client runs, the command at the head of the buffer is executed
C22_ExecuteNeverRaises ==
    /\ [](\A n \in 1..Len(client_executed) :
             /\ ~client_executed[n].raised
             /\ WentWrong(n) => /\ ~client_executed[n].success
                                /\ client_executed[n].error)
    /\ \A k \in 0..MaxCommands :
          (/\ "process_commands" \in client_tasks
           /\ client_running
           /\ Len(client_executed) = k
           /\ client_buffer # <<>>)
             ~> (Len(client_executed) > k \/ ~client_running)

C22_Witness ==
    /\ Len(client_executed) = 2
    /\ WentWrong(1)
    /\ client_executed[1].outcome = "raise"
    /\ ~client_executed[1].success
    /\ client_running

\* ---- heartbeats and the maintenance sweep ----

\* C23: every heartbeat of a running client refreshes the last-seen of its
\* agent, so that a sweep does not remove the agent of a running client
\* whose last heartbeat is not older than the sweep's threshold
C23_HeartbeatKeepsAgent ==
    [][/\ (Heartbeat /\ client_id \in DOMAIN agents) =>
             agents'[client_id].last_seen = now
       /\ (/\ IsSweep
           /\ client_running
           /\ client_id \in DOMAIN agents
           /\ client_heartbeat >= now - route_result'.threshold) =>
             client_id \in DOMAIN agents']_vars

\* ---- the keyword methods and the driver ----

XPathPrefix == <<"x", "p", "a", "t", "h", "=">>

\* The keywords whose method resolves the step's locator
LocatorKeywords ==
    {"click", "fill", "press", "select_option", "wait_for_selector",
     "expect_text"}

\* C24: the selector a keyword method hands to the driver is the step's
\* locator prefixed with xpath= when the locator starts with "/" or "(",
\* and the locator itself, unchanged, in every other case
C24_XPathIffSlashOrParen ==
    (/\ engine_results # <<>>
     /\ engine_step.keyword \in LocatorKeywords
     /\ Invoked(engine_step) # <<>>)
        => LET l == engine_step.locator.chars
               target == engine_calls[1].target
           IN  /\ (l[1] \in {"/", "("}) <=> (target = XPathPrefix \o l)
               /\ (l[1] \notin {"/", "("}) <=> (target = l)

C24_Witness ==
    /\ engine_results # <<>>
    /\ engine_step.keyword = "click"
    /\ engine_step.locator = Str(<<"(", "/">>)
    /\ engine_calls[1] = Call("locator.click", XPathPrefix \o <<"(", "/">>)

\* A step lacks a field its keyword requires: the field is absent, or it is
\* empty where the keyword method tests it by truthiness
LacksRequired(step) ==
    LET absent(x) == x.isNone
        empty(x)  == ~x.isNone /\ x.chars = <<>>
        k == step.keyword
    IN  \/ k \in {"goto", "wait_for_url"}
              /\ (absent(step.value) \/ empty(step.value))
        \/ k = "expect_title" /\ absent(step.value)
        \/ k \in {"click", "wait_for_selector"}
              /\ (absent(step.locator) \/ empty(step.locator))
        \/ k \in {"fill", "expect_text"}
              /\ (absent(step.locator) \/ empty(step.locator)
                     \/ absent(step.value))
        \/ k \in {"press", "select_option"}
              /\ (absent(step.locator) \/ empty(step.locator)
                     \/ absent(step.value) \/ empty(step.value))

\* The primitives of the keyword method among the calls made: all calls but
\* the page.screenshot of the failure handler
MethodCalls ==
    IF engine_results # <<>> /\ ~engine_results[1].success
    THEN SubSeq(engine_calls, 1, Len(engine_calls) - 1)
    ELSE engine_calls

\* C25: a step of the vocabulary that lacks a required field makes
\* execute_step return success false with no primitive of its keyword
\* invoked; a step that lacks none has its primitive invoked; a screenshot
\* step whose page.screenshot works succeeds with or without a value
C25_MissingFieldFails ==
    engine_results # <<>> /\ engine_step.keyword \in KEYWORDS =>
        LET r == engine_results[1]
        IN  /\ LacksRequired(engine_step) =>
                  ~r.raised /\ ~r.success /\ MethodCalls = <<>>
            /\ ~LacksRequired(engine_step) => MethodCalls # <<>>
            /\ (/\ engine_step.keyword = "screenshot"
                /\ engine_calls = <<Call("page.screenshot",
                                         ScreenshotPath(engine_step.value))>>)
                  => r.success /\ ~r.raised

\* ---- the shape of a run ----

\* C26: a run whose case or whose project does not exist opens no browser
\* session, starts no trace and executes no step; it ends Failed with one
\* log entry, the critical one, and one call of save_run_results
C26_MissingDataNoSession ==
    (pc = "done" /\ (~db_case.found \/ ~db_project.found)) =>
        /\ CountCalls("launch") = 0 /\ session = "none"
        /\ CountCalls("new_context") = 0
        /\ CountCalls("tracing.start") = 0 /\ tracing = "none"
        /\ CountCalls("execute_step") = 0 /\ results = <<>>
        /\ test_status = "Failed"
        /\ Len(run_log_entries) = 1
        /\ run_log_entries[1].level = "CRITICAL"
        /\ CountCalls("save_run_results") = 1

C26_Witness ==
    /\ pc = "done"
    /\ db_case.found /\ Len(db_case.steps) = 2
    /\ ~db_project.found
    /\ calls = <<"get_test_case", "get_project", "except",
                 "save_run_results">>

\* Every call a of the run was made before every call b
Before(a, b) ==
    \A i, j \in 1..Len(calls) : (calls[i] = a /\ calls[j] = b) => i < j

\* C27: the phases of a run come in the order session open, trace start,
\* steps, trace stop, session close, persistence: the trace is started
\* before the first step, no step is executed after the trace was stopped,
\* and save_run_results is called once, as the last call of the run, after
\* the session that was opened has been closed
C27_PhasesInOrder ==
    /\ Before("launch", "new_context")
    /\ Before("new_context", "tracing.start")
    /\ Before("tracing.start", "execute_step")
    /\ CountCalls("execute_step") > 0 =>
          CountCalls("tracing.start") = 1 /\ tracing # "none"
    /\ Before("execute_step", "tracing.stop")
    /\ tracing = "stopped" => pc \notin {"step_loop", "new_page"}
    /\ Before("tracing.stop", "browser.close")
    /\ Before("tracing.stop", "playwright.stop")
    /\ \A n \in 1..Len(calls) :
          calls[n] = "save_run_results" => n = Len(calls) /\ pc = "done"
    /\ pc = "done" =>
          /\ CountCalls("save_run_results") = 1
          /\ session # "none" =>
                Called("browser.close") \/ session = "lost"

C27_Witness ==
    /\ pc = "done"
    /\ test_status = "Passed"
    /\ calls = <<"get_test_case", "get_project", "makedirs", "launch",
                 "new_context", "tracing.start", "new_page", "execute_step",
                 "execute_step", "tracing.stop", "page.close",
                 "context.close", "browser.close", "save_run_results">>

\* ---- concurrent saves ----

\* C28: whatever the interleaving of concurrent saves, every log row
\* refers to the run row that the same save inserted
C28_LogsReferenceOwnRun ==
    \A l \in run_logs :
        \E r \in test_runs : r.id = l.run_id /\ r.owner = l.owner

\* ---- concurrent runs ----

\* C29: two runs that execute at the same time write no file in common:
\* their log files, traces and screenshots have pairwise distinct paths
C29_ArtifactsDistinct ==
    \A f, g \in files : f.path = g.path => f.writer = g.writer

\* ---- screenshot paths in the run log ----

\* C30: in every persisted run, a step entry carries a screenshot path
\* exactly when its level is ERROR; INFO entries, the one of a successful
\* screenshot step included, carry none; a Passed run has no path at all,
\* and a run with a failed step has its only path on its last step entry
C30_ScreenshotIffFailed ==
    \A m \in 1..Len(saved_runs) :
        LET steps == StepEntries(saved_runs[m].logs)
            n == Len(steps)
        IN  /\ \A j \in 1..n :
                  /\ (steps[j].screenshot_path # NoPath)
                        <=> (steps[j].level = "ERROR")
                  /\ steps[j].level = "INFO" =>
                        /\ results[j].result.success
                        /\ steps[j].screenshot_path = NoPath
            /\ saved_runs[m].status = "Passed" =>
                  \A j \in 1..Len(saved_runs[m].logs) :
                      saved_runs[m].logs[j].screenshot_path = NoPath
            /\ (\E j \in 1..n : ~results[j].result.success) =>
                  /\ steps[n].screenshot_path = FailureScreenshot(n)
                  /\ \A j \in 1..(n - 1) : steps[j].screenshot_path = NoPath

C30_Witness ==
    /\ pc = "done"
    /\ Len(saved_runs) = 1
    /\ Len(saved_runs[1].logs) = 2
    /\ results[1].result.handler = "screenshot"
    /\ saved_runs[1].logs[1].level = "INFO"
    /\ saved_runs[1].logs[1].screenshot_path = NoPath
    /\ saved_runs[1].logs[2].level = "ERROR"
    /\ saved_runs[1].logs[2].screenshot_path = FailureScreenshot(2)

\* ---- one agent's channels and another agent's operations ----

\* The backlog or the response channel of agent a, registered before and
\* after the step, is changed by the step
Touched(a) ==
    \/ /\ a \in DOMAIN agent_commands /\ a \in DOMAIN agent_commands'
       /\ agent_commands'[a] # agent_commands[a]
    \/ /\ a \in DOMAIN command_queues /\ a \in DOMAIN command_queues'
       /\ command_queues'[a] # command_queues[a]
    \/ /\ a \in DOMAIN agent_connections /\ a \in DOMAIN agent_connections'
       /\ agent_connections'[a] # agent_connections[a]

\* C31: a command a poll returned to an agent was enqueued for that agent
\* and for no other; a response that completed a dispatch was handled for
\* the agent the dispatch waited on; and no operation changes the backlog
\* or the response channel of two agents
C31_NoCrossAgent ==
    /\ [](/\ \A a \in AgentIds : \A n \in 1..Len(polled[a]) :
                /\ \E m \in 1..Len(enqueued[a]) :
                      enqueued[a][m] = polled[a][n]
                /\ \A b \in AgentIds \ {a} : \A m \in 1..Len(enqueued[b]) :
                      enqueued[b][m].id # polled[a][n].id
          /\ \A d \in Callers :
                dresult[d].kind = "response" => dresult[d].from = dagent[d]
          /\ \A a \in DOMAIN agent_connections :
                \A n \in 1..Len(agent_connections[a]) :
                    agent_connections[a][n].from = a)
    /\ [][Cardinality({a \in AgentIds : Touched(a)}) <= 1]_vars

C31_Witness ==
    /\ dpc["d1"] = "returned"
    /\ dresult["d1"].kind = "response"
    /\ dagent["d1"] = 2
    /\ 1 \in DOMAIN agent_connections
    /\ agent_connections[1] # <<>>

\* ---- the receive/execute pipeline of the client ----

\* The ids of the commands in a sequence of commands
Ids(commands) == [n \in 1..Len(commands) |-> commands[n].id]

\* C32: a poll puts at most one command in the buffer; at most one command
\* is being executed at any time; and the commands executed, the one being
\* executed and the ones still buffered are, in this order, the commands
\* in the order the polls fetched them
C32_OneAtATimeInOrder ==
    /\ [](/\ Len(client_executing) <= 1
          /\ (client_id \in DOMAIN agents) =>
                Ids(client_executed)
                    \o Ids([n \in 1..Len(client_executing) |->
                               client_executing[n].command])
                    \o Ids(client_buffer)
                  = Ids(polled[client_id]))
    /\ [][Len(client_buffer') <= Len(client_buffer) + 1]_vars

\* A command is being executed and a poll has fetched another one since
\* its execution began
C32_Witness ==
    /\ Len(client_executing) = 1
    /\ client_id \in DOMAIN agents
    /\ Len(polled[client_id]) > client_executing[1].fetched
    /\ client_buffer # <<>>

\* ---- update_agent_status and the poll ----

\* Agent a is the only agent whose entry the step changes, and no backlog
\* or channel is changed by it
OnlyEntryOf(a) ==
    /\ DOMAIN agents' = DOMAIN agents
    /\ \A b \in DOMAIN agents \ {a} : agents'[b] = agents[b]
    /\ agents'[a].created_at = agents[a].created_at
    /\ command_queues' = command_queues
    /\ agent_connections' = agent_connections

\* C33: update_agent_status on a registered id sets the status and the
\* last-seen of that agent and changes nothing else, on an unknown id it
\* changes nothing; a poll of a registered agent refreshes its last-seen
\* and leaves its status, and everything else but its backlog, as it was
C33_UpdateStatusFrame ==
    [][/\ \A a \in 0..MaxAgents, status \in AgentStatuses :
             UpdateStatus(a, status) =>
                IF a \in DOMAIN agents
                THEN /\ agents'[a].status = status
                     /\ agents'[a].last_seen = now
                     /\ OnlyEntryOf(a)
                     /\ agent_commands' = agent_commands
                ELSE /\ agents' = agents
                     /\ command_queues' = command_queues
                     /\ agent_connections' = agent_connections
                     /\ agent_commands' = agent_commands
       /\ \A a \in AgentIds :
             (RoutePoll(a) /\ a \in DOMAIN agents) =>
                /\ agents'[a].last_seen = now
                /\ agents'[a].status = agents[a].status
                /\ OnlyEntryOf(a)]_vars

C33_Witness ==
    /\ DOMAIN agents = {1, 2}
    /\ agents[1].status = "error"
    /\ agents[1].last_seen = 2
    /\ agents[1].created_at = 0
    /\ agents[2].status = "online"
    /\ agents[2].last_seen = 1
    /\ agent_commands[1] # <<>>

\* ---- the list of available agents ----

\* C34: a request for the list of available agents, made through the route
\* table, is answered with exactly the registered agents that are online
C34_AvailableIsOnline ==
    [][HttpGet(Word("available")) \/ ListAvailableAgents =>
          /\ route_result'.kind = "ok"
          /\ route_result'.listed =
                {a \in DOMAIN agents : agents[a].status = "online"}]_vars

\* C34, the part that holds: list_available_agents lists exactly the
\* registered agents that are online
C34_FunctionListsOnline ==
    [][ListAvailableAgents =>
          /\ route_result'.kind = "ok"
          /\ route_result'.listed =
                {a \in DOMAIN agents : agents[a].status = "online"}]_vars

\* The path "available" is answered by get_agent, with no agent of that id
C34_Witness ==
    /\ route_result.route = "get_agent"
    /\ route_result.kind = "not_found"
    /\ \E a \in DOMAIN agents : agents[a].status = "online"
    /\ \E a \in DOMAIN agents : agents[a].status = "busy"

\* ---- the steps of a case ----

Ascending(steps) ==
    \A i, j \in 1..Len(steps) :
        i < j => steps[i].step_order <= steps[j].step_order

C36_UpdateReplacesAndReturnsStored ==
    [][\A c \in CaseIds, steps \in SubmittedSteps :
          (\E fails_at \in 0..Len(steps), unread \in UnreadRows :
              UpdateTestCase(c, steps, fails_at, unread))
          => IF case_returned'.raised
             THEN test_steps' = test_steps
             ELSE /\ test_steps'[c] = steps
                  /\ case_returned'.steps =
                        OrderByStepOrder(test_steps'[c])]_vars

\* C36, the part that holds: the stored steps after an update
C36_UpdateReplacesAtomically ==
    [][\A c \in CaseIds, steps \in SubmittedSteps :
          (\E fails_at \in 0..Len(steps), unread \in UnreadRows :
              UpdateTestCase(c, steps, fails_at, unread))
          => IF case_returned'.raised
             THEN test_steps' = test_steps
             ELSE test_steps'[c] = steps]_vars

\* ---- the response to a run-case command ----

\* C37: the response to a run-case command has success true when the payload
\* is well formed, whatever status the run recorded, and success false only
\* when the payload is malformed
C37_SuccessIffWellFormed ==
    \A i \in 1..Len(client_executed) :
        LET e == client_executed[i]
        IN  /\ ~e.raised
            /\ e.success <=> e.outcome # "bad_payload"
            /\ e.outcome # "bad_payload" =>
                  /\ e.ran = "run_test_case"
                  /\ e.status \in {"Passed", "Failed"}
            /\ e.outcome = "bad_payload" => e.ran = NoRun

\* A run recorded Failed is answered with success true
C37_Witness ==
    /\ client_executed # <<>>
    /\ client_executed[1].success
    /\ client_executed[1].status = "Failed"
    /\ test_status = "Failed"
    /\ "save_run_results" \in {calls[i] : i \in 1..Len(calls)}

\* A run recorded Passed is answered with success true as well
C37_WitnessPassed ==
    /\ client_executed # <<>>
    /\ client_executed[1].success
    /\ client_executed[1].status = "Passed"

\* ---- the heartbeat as a command ----

\* C38: a heartbeat of a registered client appends one ping to the backlog of
\* the client's own id and leaves the registry entry, status and last-seen,
\* as it is; a backlog loses an entry only to a poll of its agent; and the
\* polls return what was enqueued, pings and other commands, in the order
\* it was enqueued
C38_HeartbeatEnqueuesPing ==
    /\ [][Heartbeat =>
             /\ agents' = agents
             /\ IF client_id \in DOMAIN agents
                THEN /\ Len(Backlog(client_id)') = Len(Backlog(client_id)) + 1
                     /\ SubSeq(Backlog(client_id)', 1, Len(Backlog(client_id)))
                           = Backlog(client_id)
                     /\ Backlog(client_id)'[Len(Backlog(client_id)')].command
                           = "ping"
                     /\ \A a \in DOMAIN agents \ {client_id} :
                           Backlog(a)' = Backlog(a)
                ELSE agent_commands' = agent_commands]_vars
    /\ [][\A a \in DOMAIN agents \cap DOMAIN agents' :
             Len(Backlog(a)') < Len(Backlog(a)) =>
                /\ IsPoll
                /\ Backlog(a)' = Tail(Backlog(a))
                /\ polled'[a] = Append(polled[a], Head(Backlog(a)))]_vars
    /\ [](\A a \in DOMAIN agents : polled[a] \o Backlog(a) = enqueued[a])

\* A ping of a heartbeat and another command were polled by the client in
\* the order they were enqueued
C38_Witness ==
    /\ client_id \in DOMAIN agents
    /\ Len(enqueued[client_id]) = 2
    /\ polled[client_id] = enqueued[client_id]
    /\ \E i, j \in 1..2 :
          /\ enqueued[client_id][i].command = "ping"
          /\ enqueued[client_id][j].command # "ping"

\* Two heartbeats without a poll: two pings wait in the backlog, and
\* last_seen is older than the last heartbeat
C38_WitnessBacklog ==
    /\ client_id \in DOMAIN agents
    /\ Len(Backlog(client_id)) = 2
    /\ \A i \in 1..2 : Backlog(client_id)[i].command = "ping"
    /\ polled[client_id] = <<>>
    /\ client_heartbeat > agents[client_id].last_seen

\* ---- a dispatch that outlives its agent ----

\* Agent a was registered and has been removed
Removed(a) == a <= next_agent /\ a \notin DOMAIN agents

\* C39: an agent that was removed has no registry entry, no command queue
\* and no response queue, and gets none again; a dispatch that returns after
\* its agent was removed returns a timeout or the response and changes none
\* of the three, and the status of the id is that of an unknown agent
C39_RemovedStaysRemoved ==
    /\ [](\A a \in AgentIds :
             Removed(a) => /\ a \notin DOMAIN command_queues
                           /\ a \notin DOMAIN agent_connections)
    /\ [][\A a \in AgentIds : Removed(a) => Removed(a)']_vars
    /\ [][\A d \in Callers :
             (/\ InFlight(d)
              /\ dpc'[d] = "returned"
              /\ Removed(dagent[d]))
                => /\ agents' = agents
                   /\ command_queues' = command_queues
                   /\ agent_connections' = agent_connections
                   /\ dresult'[d].kind \in {"timeout", "response"}
                   /\ dstatus'[d] = "unregistered"]_vars

\* A dispatch timed out after its agent had been removed
C39_Witness ==
    /\ dpc["d1"] = "returned"
    /\ dresult["d1"].kind = "timeout"
    /\ Removed(dagent["d1"])
    /\ dstatus["d1"] = "unregistered"

\* A dispatch returned the response it had been woken for after its agent
\* had been removed
C39_WitnessResponse ==
    /\ dpc["d1"] = "returned"
    /\ dresult["d1"].kind = "response"
    /\ Removed(dagent["d1"])
    /\ dagent["d1"] \in DOMAIN detached

\* ---- a dispatch of a command that is not an execution ----

\* This step is one of caller d inside send_command, for a command that is
\* not an execution
NonExecutionStep(d) ==
    /\ dpc'[d] # dpc[d] \/ dcmd'[d] # dcmd[d]
    /\ dpc[d] # "suspended" \/ dpc'[d] # "woken"
    /\ dcmd'[d].command \notin ExecutionCommands

\* C40: a dispatch of a command that is not an execution changes no status
\* when it is sent and when it returns a response; when it times out the
\* status of its agent is Error, and Error is the status when it returns
C40_NonExecutionStatus ==
    [][\A d \in Callers :
          NonExecutionStep(d) =>
             IF dpc'[d] = "returned" /\ dresult'[d].kind = "timeout"
             THEN /\ agents' = update_agent_status(agents, dagent[d],
                                                   "error", now)
                  /\ dagent[d] \in DOMAIN agents =>
                        /\ agents'[dagent[d]].status = "error"
                        /\ dstatus'[d] = "error"
             ELSE agents' = agents]_vars

\* A ping timed out and left its agent in Error
C40_Witness ==
    /\ dpc["d1"] = "returned"
    /\ dcmd["d1"].command = "ping"
    /\ dresult["d1"].kind = "timeout"
    /\ dstatus["d1"] = "error"
    /\ agents[dagent["d1"]].status = "error"

\* A ping returned its response and the agent is Online as before
C40_WitnessResponse ==
    /\ dpc["d1"] = "returned"
    /\ dcmd["d1"].command = "ping"
    /\ dresult["d1"].kind = "response"
    /\ dstatus["d1"] = "online"

=============================================================================
